---- MODULE Spec2Model ----
(***************************************************************************)
(* Model of the write path of the Notion MCP server: the batch mutation    *)
(* helpers (chunkBlocks, appendBlocksInBatches, fetchAllChildBlockIds) and  *)
(* the rewritePage orchestrator, run against a model of the remote block   *)
(* API (children.list, children.append, blocks.delete).                    *)
(*                                                                         *)
(* Every remote call is an await: the invocation sends a request (it is    *)
(* then in flight), and resumes when the remote has answered or failed.    *)
(* Sequences are 1-based here; loop counters and batchIndex keep the       *)
(* 0-based values of the source.                                           *)
(***************************************************************************)
EXTENDS Integers, Sequences, FiniteSets, TLC

\* ------------------------------------------------------------------------
\* Bounds of the model
\* ------------------------------------------------------------------------
\* Inputs have k * NOTION_BLOCK_LIMIT + r blocks, k <= MaxFullChunks, r <= MaxExtraBlocks
MaxFullChunks == 2
MaxExtraBlocks == 2
\* Children of the container before the invocation
MaxOldChildren == 4
\* The remote returns at most Min(page_size, RemotePageCap) children per list page
RemotePageCap == 2
\* Invocation slots (one is active in Spec)
NumInvocations == 2
\* chunkBlocks as a pure function: input lengths and chunk sizes
MaxChunkInput == 5
MaxChunkSize == 3

\* ------------------------------------------------------------------------
\* Program constants
\* ------------------------------------------------------------------------
NOTION_BLOCK_LIMIT == 100
PAGE_SIZE == 100
\* cursor: string | undefined; 0 stands for undefined / null (ids are >= 1)
NoCursor == 0

Procs == 1..NumInvocations

Min(a, b) == IF a < b THEN a ELSE b

\* variant: the end index is taken as inclusive
SliceInclusive(s, from, to) == SubSeq(s, from + 1, Min(to + 1, Len(s)))

\* Array.prototype.slice(from, to) on a 0-based array
Slice(s, from, to) == SubSeq(s, from + 1, Min(to, Len(s)))

\* ------------------------------------------------------------------------
\* chunkBlocks
\* ------------------------------------------------------------------------
RECURSIVE ChunkLoop(_, _, _, _)
ChunkLoop(blocks, chunkSize, i, chunks) ==
  IF i < Len(blocks)
    THEN ChunkLoop(blocks, chunkSize, i + chunkSize,
                   Append(chunks, Slice(blocks, i, i + chunkSize)))
    ELSE chunks

chunkBlocks(blocks, chunkSize) ==
  IF Len(blocks) = 0 THEN << >> ELSE ChunkLoop(blocks, chunkSize, 0, << >>)

\* ------------------------------------------------------------------------
\* splitTextIntoChunks: a text is the sequence of its characters
\* ------------------------------------------------------------------------
MAX_RICH_TEXT_LENGTH == 2000

\* how far below the limit a place to split is looked for
SPLIT_LOOKBACK == 100

\* the characters /[\s.,;:!?]/ matches (of the white space: blank, tab, newline)
BreakChars == { " ", "\t", "\n", ".", ",", ";", ":", "!", "?" }

Max(a, b) == IF a > b THEN a ELSE b

\* variant: the search for a place to split starts at index maxLength
SplitIndexFromLimit(remaining, maxLength) ==
  LET searchStart == Max(0, maxLength - SPLIT_LOOKBACK)
      found == { i \in searchStart..maxLength : remaining[i + 1] \in BreakChars }
  IN IF found = {} THEN maxLength
     ELSE (CHOOSE i \in found : \A j \in found : j <= i) + 1

\* splitIndex after the for loop: one past the last index i (counted from 0)
\* in searchStart..maxLength-1 that holds a break character, else maxLength
SplitIndex(remaining, maxLength) ==
  LET searchStart == Max(0, maxLength - SPLIT_LOOKBACK)
      found == { i \in searchStart..(maxLength - 1) : remaining[i + 1] \in BreakChars }
  IN IF found = {} THEN maxLength
     ELSE (CHOOSE i \in found : \A j \in found : j <= i) + 1

\* the chunks splitTextIntoChunks returns
RECURSIVE SplitLoop(_, _)
SplitLoop(remaining, maxLength) ==
  IF Len(remaining) = 0 THEN << >>
  ELSE IF Len(remaining) <= maxLength THEN << remaining >>
  ELSE LET splitIndex == SplitIndex(remaining, maxLength)
       IN << SubSeq(remaining, 1, splitIndex) >>
            \o SplitLoop(SubSeq(remaining, splitIndex + 1, Len(remaining)), maxLength)

splitTextIntoChunks(text, maxLength) ==
  IF Len(text) <= maxLength THEN << text >> ELSE SplitLoop(text, maxLength)

\* ------------------------------------------------------------------------
\* stripInlineMarkdown: eight replace calls with global regular expressions,
\* one after the other.  For a pattern and a place i in the text, MatchEnd
\* is the place of the last character of the match that starts at i (0 when
\* there is none) and Replacement the text put in its stead.
\* ------------------------------------------------------------------------
\* the backquote character, named: a string cannot hold it
Backquote == "backquote"

At(text, i, s) ==
  /\ i >= 1
  /\ i + Len(s) - 1 <= Len(text)
  /\ \A k \in 1..Len(s) : text[i + k - 1] = s[k]

\* the first place from i on that holds the character c, 0 when none does
IndexOf(text, c, i) ==
  LET found == { k \in i..Len(text) : text[k] = c }
  IN IF found = {} THEN 0 ELSE CHOOSE k \in found : \A j \in found : k <= j

\* what "." does not match
LineTerminators == { "\n", "\r" }

Delimiters(pattern) ==
  CASE pattern = "bolditalic" -> { << "*", "*", "*" >>, << "_", "_", "_" >> }
    [] pattern = "bold" -> { << "*", "*" >>, << "_", "_" >> }
    [] pattern = "italic" -> { << "*" >>, << "_" >> }
    [] pattern = "strike" -> { << "~", "~" >> }
    [] OTHER -> {}

\* (delimiter)(.+?)\1 at i: the places where the closing delimiter can start
Closings(text, i, d) ==
  { j \in (i + Len(d) + 1)..(Len(text) - Len(d) + 1) :
      /\ At(text, j, d)
      /\ \A k \in (i + Len(d))..(j - 1) : text[k] \notin LineTerminators }

EscapedChars == { "*", "_", Backquote, "~", "[", "]" }

\* the places of "]", "(" ... ")" of ![alt](url) or [text](url) whose "[" is at b
LinkEnd(text, b, minText) ==
  LET c == IndexOf(text, "]", b + 1)
      p == IF c = 0 THEN 0 ELSE IndexOf(text, ")", c + 2)
  IN IF c >= b + 1 + minText /\ At(text, c + 1, << "(" >>) /\ p >= c + 3
       THEN [close |-> c, last |-> p]
       ELSE [close |-> 0, last |-> 0]

Match(pattern, text, i) ==
  CASE pattern = "image" ->
         IF At(text, i, << "!", "[" >>)
           THEN LET e == LinkEnd(text, i + 1, 0)
                IN [last |-> e.last, from |-> i + 2, to |-> e.close - 1]
           ELSE [last |-> 0, from |-> 0, to |-> 0]
    [] pattern = "link" ->
         IF At(text, i, << "[" >>)
           THEN LET e == LinkEnd(text, i, 1)
                IN [last |-> e.last, from |-> i + 1, to |-> e.close - 1]
           ELSE [last |-> 0, from |-> 0, to |-> 0]
    [] pattern = "code" ->
         IF At(text, i, << Backquote >>)
           THEN LET j == IndexOf(text, Backquote, i + 1)
                IN IF j >= i + 2
                     THEN [last |-> j, from |-> i + 1, to |-> j - 1]
                     ELSE [last |-> 0, from |-> 0, to |-> 0]
           ELSE [last |-> 0, from |-> 0, to |-> 0]
    [] pattern = "escape" ->
         IF At(text, i, << "\\" >>) /\ i < Len(text) /\ text[i + 1] \in EscapedChars
           THEN [last |-> i + 1, from |-> i + 1, to |-> i + 1]
           ELSE [last |-> 0, from |-> 0, to |-> 0]
    [] OTHER ->
         LET ds == { d \in Delimiters(pattern) : At(text, i, d) }
         IN IF ds = {} THEN [last |-> 0, from |-> 0, to |-> 0]
            ELSE LET d == CHOOSE x \in ds : TRUE
                     js == Closings(text, i, d)
                 IN IF js = {} THEN [last |-> 0, from |-> 0, to |-> 0]
                    ELSE LET j == CHOOSE x \in js : \A y \in js : x <= y
                         IN [last |-> j + Len(d) - 1, from |-> i + Len(d), to |-> j - 1]

\* text.replace(/pattern/g, "$n"): the leftmost match is replaced, the search
\* goes on behind it
RECURSIVE ReplaceAll(_, _)
ReplaceAll(pattern, text) ==
  LET starts == { i \in 1..Len(text) : Match(pattern, text, i).last > 0 }
  IN IF starts = {} THEN text
     ELSE LET i == CHOOSE x \in starts : \A y \in starts : x <= y
              m == Match(pattern, text, i)
          IN SubSeq(text, 1, i - 1) \o SubSeq(text, m.from, m.to)
               \o ReplaceAll(pattern, SubSeq(text, m.last + 1, Len(text)))

\* the patterns in the order of the replace calls
Patterns ==
  << "image", "link", "bolditalic", "bold", "italic", "strike", "code", "escape" >>

\* the text after the replace calls from the k-th on
RECURSIVE StripFrom(_, _)
StripFrom(text, k) ==
  IF k > Len(Patterns) THEN text
  ELSE StripFrom(ReplaceAll(Patterns[k], text), k + 1)

stripInlineMarkdown(text) == StripFrom(text, 1)

\* null and undefined: a value that is no text; its one element is no character
Null == << "null" >>

TextRun(content) == [type |-> "text", content |-> content]

\* variant: no run is made for a text that is empty once stripped
createPlainTextRichTextNoEmptyRun(text) ==
  IF text = Null THEN << >>
  ELSE CHOOSE runs \in
         { IF Len(plainText) = 0 THEN << >>
           ELSE LET chunks == splitTextIntoChunks(plainText, MAX_RICH_TEXT_LENGTH)
                IN [ k \in 1..Len(chunks) |-> TextRun(chunks[k]) ]
             : plainText \in { stripInlineMarkdown(text) } } : TRUE

\* const plainText = stripInlineMarkdown(text), a value computed once; then
\* one run with empty content, or one run per chunk
createPlainTextRichText(text) ==
  IF text = Null THEN << >>
  ELSE CHOOSE runs \in
         { IF Len(plainText) = 0 THEN << TextRun(<< >>) >>
           ELSE LET chunks == splitTextIntoChunks(plainText, MAX_RICH_TEXT_LENGTH)
                IN [ k \in 1..Len(chunks) |-> TextRun(chunks[k]) ]
             : plainText \in { stripInlineMarkdown(text) } } : TRUE

\* ------------------------------------------------------------------------
\* Markdown conversion, as far as the write path needs it: a document is
\* the token list the lexer yields for it (blank = empty or whitespace only)
\* ------------------------------------------------------------------------
createParagraphBlock(text) == [type |-> "paragraph", text |-> text]

\* a || b of two optional texts: a when it is a non-empty text, otherwise b
Truthy(text) == text # Null /\ Len(text) > 0

Or(a, b) == IF Truthy(a) THEN a ELSE b

createHeading1Block(text) == [type |-> "heading_1", text |-> text]

createHeading2Block(text) == [type |-> "heading_2", text |-> text]

createHeading3Block(text) == [type |-> "heading_3", text |-> text]

createQuoteBlock(text) == [type |-> "quote", text |-> text]

createDividerBlock == [type |-> "divider"]

UpperCase == << "A", "B", "C", "D", "E", "F", "G", "H", "I", "J", "K", "L", "M",
                "N", "O", "P", "Q", "R", "S", "T", "U", "V", "W", "X", "Y", "Z" >>

LowerCase == << "a", "b", "c", "d", "e", "f", "g", "h", "i", "j", "k", "l", "m",
                "n", "o", "p", "q", "r", "s", "t", "u", "v", "w", "x", "y", "z" >>

toLowerCase(text) ==
  [ k \in 1..Len(text) |->
      IF \E n \in 1..Len(UpperCase) : UpperCase[n] = text[k]
        THEN LowerCase[CHOOSE n \in 1..Len(UpperCase) : UpperCase[n] = text[k]]
        ELSE text[k] ]

PlainText == << "p", "l", "a", "i", "n", " ", "t", "e", "x", "t" >>

\* language mapping for common aliases: << alias, language >>
languageMap ==
  { << << "j", "s" >>, << "j", "a", "v", "a", "s", "c", "r", "i", "p", "t" >> >>,
    << << "t", "s" >>, << "t", "y", "p", "e", "s", "c", "r", "i", "p", "t" >> >>,
    << << "p", "y" >>, << "p", "y", "t", "h", "o", "n" >> >>,
    << << "r", "b" >>, << "r", "u", "b", "y" >> >>,
    << << "s", "h" >>, << "s", "h", "e", "l", "l" >> >>,
    << << "b", "a", "s", "h" >>, << "s", "h", "e", "l", "l" >> >>,
    << << "z", "s", "h" >>, << "s", "h", "e", "l", "l" >> >>,
    << << "y", "m", "l" >>, << "y", "a", "m", "l" >> >>,
    << << "m", "d" >>, << "m", "a", "r", "k", "d", "o", "w", "n" >> >>,
    << << >>, PlainText >> }

\* the table is a plain object: beside its own keys a lookup finds the
\* properties every object inherits, whose value is an object and no text
InheritedKeys ==
  { << "c", "o", "n", "s", "t", "r", "u", "c", "t", "o", "r" >>,
    << "_", "_", "p", "r", "o", "t", "o", "_", "_" >> }

InheritedProperty == << "object" >>

\* languageMap[key], Null when the lookup finds nothing
LanguageLookup(key) ==
  IF \E e \in languageMap : e[1] = key
    THEN (CHOOSE e \in languageMap : e[1] = key)[2]
    ELSE IF key \in InheritedKeys THEN InheritedProperty ELSE Null

\* variant: a tag that is not in the table gives "plain text"
NotionLanguageTableOnly(language) ==
  LET normalizedLanguage == IF language = Null THEN << >> ELSE toLowerCase(language)
  IN Or(LanguageLookup(normalizedLanguage), PlainText)

\* languageMap[normalizedLanguage] || normalizedLanguage || "plain text"
NotionLanguage(language) ==
  LET normalizedLanguage == IF language = Null THEN << >> ELSE toLowerCase(language)
  IN Or(LanguageLookup(normalizedLanguage), Or(normalizedLanguage, PlainText))

createCodeBlock(code, language) ==
  [type |-> "code", text |-> code, language |-> NotionLanguage(language)]

\* new URL(url) throws unless the text starts with a scheme, letters up to a
\* colon (the texts used as URLs have a non-special scheme or none)
Letters == { UpperCase[n] : n \in 1..Len(UpperCase) } \cup { LowerCase[n] : n \in 1..Len(LowerCase) }

IsValidUrl(url) ==
  LET colon == IndexOf(url, ":", 1)
  IN colon >= 2 /\ \A k \in 1..(colon - 1) : url[k] \in Letters

ImageFallback(text) == << "[", "I", "m", "a", "g", "e", ":", " " >> \o text \o << "]" >>

createImageBlock(url, caption) ==
  IF ~IsValidUrl(url)
    THEN createParagraphBlock(ImageFallback(Or(caption, url)))
    ELSE IF Truthy(caption)
      THEN [type |-> "image", url |-> url, caption |-> createPlainTextRichText(caption)]
      ELSE [type |-> "image", url |-> url]

\* the block kinds that carry text
TextualTypes ==
  { "paragraph", "heading_1", "heading_2", "heading_3", "bulleted_list_item",
    "numbered_list_item", "to_do", "quote", "code" }

\* a block is recorded by its kind and the text given to its constructor;
\* rich_text is the runs the constructor makes of that text: one run holding
\* the whole code for a code block, createPlainTextRichText(text) otherwise
RichText(block) ==
  IF block.type = "code"
    THEN << TextRun(block.text) >>
    ELSE createPlainTextRichText(block.text)

\* parts.join("")
RECURSIVE Flat(_)
Flat(parts) ==
  IF Len(parts) = 0 THEN << >> ELSE parts[1] \o Flat(Tail(parts))

Whitespace == { " ", "\n", "\t", "\r" }

\* text.trim()
Trim(text) ==
  LET kept == { k \in 1..Len(text) : text[k] \notin Whitespace }
  IN IF kept = {} THEN << >>
     ELSE SubSeq(text, CHOOSE k \in kept : \A j \in kept : k <= j,
                       CHOOSE k \in kept : \A j \in kept : k >= j)

\* Maximum nesting depth supported by the remote API
MAX_NESTING_DEPTH == 3

\* variant: the children are attached whenever they are given
ListItemBlockAlways(type, text, children) ==
  [type |-> type, text |-> text, children |-> children]

\* a list item block carries a children field only when it has children
ListItemBlock(type, text, children) ==
  IF Len(children) > 0
    THEN [type |-> type, text |-> text, children |-> children]
    ELSE [type |-> type, text |-> text]

createBulletedListItemBlock(text, children) ==
  ListItemBlock("bulleted_list_item", text, children)

createNumberedListItemBlock(text, children) ==
  ListItemBlock("numbered_list_item", text, children)

createToDoBlock(text, checked) ==
  [type |-> "to_do", text |-> text, checked |-> checked]

\* textContent: the text of the item's text and paragraph sub-tokens, joined
RECURSIVE TextContent(_)
TextContent(tokens) ==
  IF Len(tokens) = 0 THEN << >>
  ELSE LET token == Head(tokens)
       IN (IF token.type \in {"text", "paragraph"} THEN token.text ELSE << >>)
            \o TextContent(Tail(tokens))

ListTokenIndexes(tokens) == { k \in 1..Len(tokens) : tokens[k].type = "list" }

\* nestedList after the loop over item.tokens: every list sub-token is
\* assigned to it in turn, the last one stays
NestedList(tokens) ==
  tokens[CHOOSE k \in ListTokenIndexes(tokens) :
           \A j \in ListTokenIndexes(tokens) : j <= k]

DepthWarning(depth) ==
  [warning |-> "Nested list exceeds maximum depth. Flattening to siblings.",
   depth |-> depth]

\* variant: the depth test admits children one level further down
NestWithinLimitInclusive(depth) == depth <= MAX_NESTING_DEPTH

\* if (depth < MAX_NESTING_DEPTH): the nested list becomes children
NestWithinLimit(depth) == depth < MAX_NESTING_DEPTH

\* variant: the nested items inherit the flag of the enclosing list
NestedOrderedInherited(nestedList, ordered) == ordered

\* the ordered argument of the recursive calls: nestedList.ordered
NestedOrdered(nestedList, ordered) == nestedList.ordered

\* processListItems and processListItem; beside their results they yield the
\* warnings they push on conversionWarnings, in the order of the pushes
RECURSIVE processListItems(_, _, _)
RECURSIVE processListItem(_, _, _)
processListItem(item, ordered, depth) ==
  IF item.task
    THEN [block |-> createToDoBlock(item.text, item.checked),
          flattenedItems |-> << >>, warnings |-> << >>]
    ELSE
      LET hasTokens == "tokens" \in DOMAIN item
          textContent == IF hasTokens THEN TextContent(item.tokens) ELSE item.text
          hasNested == hasTokens /\ ListTokenIndexes(item.tokens) # {}
          nestedList == NestedList(item.tokens)
          asChildren == hasNested /\ NestWithinLimit(depth)
          flatten == hasNested /\ ~NestWithinLimit(depth)
          nested == IF asChildren
                      THEN processListItems(nestedList.items,
                                            NestedOrdered(nestedList, ordered), depth + 1)
                    ELSE IF flatten
                      THEN processListItems(nestedList.items,
                                            NestedOrdered(nestedList, ordered), depth)
                    ELSE [blocks |-> << >>, warnings |-> << >>]
          children == IF asChildren THEN nested.blocks ELSE << >>
      IN [block |-> IF ordered
                      THEN createNumberedListItemBlock(textContent, children)
                      ELSE createBulletedListItemBlock(textContent, children),
          flattenedItems |-> IF flatten THEN nested.blocks ELSE << >>,
          warnings |-> IF flatten
                         THEN << DepthWarning(depth + 1) >> \o nested.warnings
                         ELSE nested.warnings]

processListItems(items, ordered, depth) ==
  IF Len(items) = 0 THEN [blocks |-> << >>, warnings |-> << >>]
  ELSE LET first == processListItem(Head(items), ordered, depth)
           rest == processListItems(Tail(items), ordered, depth)
       IN [blocks |-> << first.block >> \o first.flattenedItems \o rest.blocks,
           warnings |-> first.warnings \o rest.warnings]

processList(token) == processListItems(token.items, token.ordered, 1)

KnownTokenTypes ==
  {"heading", "paragraph", "code", "blockquote", "list", "hr", "space", "html"}

processHeading(token) ==
  LET text == Or(token.text, << >>)
  IN CASE token.depth = 1 -> createHeading1Block(text)
       [] token.depth = 2 -> createHeading2Block(text)
       [] OTHER -> createHeading3Block(text)

\* the inline tokens of a paragraph in turn: textParts is the text gathered
\* since the last image, blocks the blocks pushed so far
RECURSIVE ParagraphLoop(_, _, _, _)
ParagraphLoop(tokens, k, textParts, blocks) ==
  IF k > Len(tokens)
    THEN IF Len(textParts) > 0 /\ Len(Trim(Flat(textParts))) > 0
           THEN Append(blocks, createParagraphBlock(Trim(Flat(textParts))))
           ELSE blocks
    ELSE IF tokens[k].type = "image"
      THEN ParagraphLoop(tokens, k + 1, << >>,
             (IF Len(textParts) > 0
                THEN Append(blocks, createParagraphBlock(Flat(textParts)))
                ELSE blocks)
             \o << createImageBlock(tokens[k].href,
                                    Or(tokens[k].text, Or(tokens[k].title, Null))) >>)
      ELSE ParagraphLoop(tokens, k + 1,
             Append(textParts, Or(tokens[k].raw, Or(tokens[k].text, << >>))), blocks)

\* a paragraph recorded without inline tokens is one block with its text,
\* blank or not
processParagraph(token) ==
  LET blocks == IF "tokens" \in DOMAIN token
                  THEN ParagraphLoop(token.tokens, 1, << >>, << >>)
                  ELSE << >>
  IN IF Len(blocks) > 0 THEN blocks ELSE << createParagraphBlock(token.text) >>

processCodeBlock(token) == createCodeBlock(Or(token.text, << >>), token.lang)

\* inside a block quote a paragraph block becomes a quote of its first text run
QuoteOfParagraph(block) ==
  IF block.type = "paragraph"
    THEN createQuoteBlock(Or(RichText(block)[1].content, << >>))
    ELSE block

RECURSIVE processToken(_)
RECURSIVE QuoteLoop(_, _)
QuoteLoop(tokens, k) ==
  IF k > Len(tokens) THEN << >>
  ELSE (IF tokens[k].type = "paragraph"
          THEN << createQuoteBlock(Or(tokens[k].text, << >>)) >>
          ELSE LET processed == processToken(tokens[k])
               IN [ n \in 1..Len(processed) |-> QuoteOfParagraph(processed[n]) ])
       \o QuoteLoop(tokens, k + 1)

processBlockquote(token) ==
  IF "tokens" \in DOMAIN token
    THEN QuoteLoop(token.tokens, 1)
    ELSE << createQuoteBlock(Or(token.text, << >>)) >>

processToken(token) ==
  CASE token.type = "heading" -> << processHeading(token) >>
    [] token.type = "paragraph" -> processParagraph(token)
    [] token.type = "code" -> << processCodeBlock(token) >>
    [] token.type = "blockquote" -> processBlockquote(token)
    [] token.type = "list" -> processList(token).blocks
    [] token.type = "hr" -> << createDividerBlock >>
    [] token.type = "space" -> << >>
    [] token.type = "html" ->
         IF Len(Trim(token.text)) > 0
           THEN << createParagraphBlock(Trim(token.text)) >>
           ELSE << >>
    [] OTHER -> << >>

\* the warnings processToken pushes
RECURSIVE processTokenWarnings(_)
RECURSIVE QuoteWarnings(_, _)
QuoteWarnings(tokens, k) ==
  IF k > Len(tokens) THEN << >>
  ELSE (IF tokens[k].type = "paragraph" THEN << >> ELSE processTokenWarnings(tokens[k]))
       \o QuoteWarnings(tokens, k + 1)

processTokenWarnings(token) ==
  IF token.type = "list" THEN processList(token).warnings
  ELSE IF token.type = "blockquote"
    THEN IF "tokens" \in DOMAIN token THEN QuoteWarnings(token.tokens, 1) ELSE << >>
  ELSE IF token.type \in KnownTokenTypes
    THEN << >>
    ELSE << [warning |-> "Unknown token type", type |-> token.type] >>

\* for (const token of tokens) blocks.push(...processToken(token)): the blocks
\* of tokens[lo..hi] in order (the range is halved to keep the evaluation shallow)
RECURSIVE ConvertTokens(_, _, _)
ConvertTokens(tokens, lo, hi) ==
  IF lo > hi THEN << >>
  ELSE IF lo = hi THEN processToken(tokens[lo])
  ELSE LET mid == (lo + hi) \div 2
       IN ConvertTokens(tokens, lo, mid) \o ConvertTokens(tokens, mid + 1, hi)

\* the warnings pushed while tokens[lo..hi] are processed, in order
RECURSIVE CollectWarnings(_, _, _)
CollectWarnings(tokens, lo, hi) ==
  IF lo > hi THEN << >>
  ELSE IF lo = hi THEN processTokenWarnings(tokens[lo])
  ELSE LET mid == (lo + hi) \div 2
       IN CollectWarnings(tokens, lo, mid) \o CollectWarnings(tokens, mid + 1, hi)

\* variant: the conversion stops at the first token of unknown type
markdownToBlocksUntilUnknown(markdown) ==
  LET unknown == { k \in 1..Len(markdown.tokens) :
                     markdown.tokens[k].type \notin KnownTokenTypes }
      last == IF unknown = {} THEN Len(markdown.tokens)
              ELSE (CHOOSE k \in unknown : \A j \in unknown : k <= j) - 1
  IN IF markdown.blank THEN << >> ELSE ConvertTokens(markdown.tokens, 1, last)

\* the blocks markdownToBlocks returns
markdownToBlocks(markdown) ==
  IF markdown.blank THEN << >> ELSE ConvertTokens(markdown.tokens, 1, Len(markdown.tokens))

\* the module-level conversionWarnings after markdownToBlocks(markdown)
markdownToBlocksWarnings(markdown, before) ==
  IF markdown.blank THEN before ELSE CollectWarnings(markdown.tokens, 1, Len(markdown.tokens))

\* ------------------------------------------------------------------------
\* Inputs
\* ------------------------------------------------------------------------
BlockCounts == { k * NOTION_BLOCK_LIMIT + r : k \in 0..MaxFullChunks, r \in 0..MaxExtraBlocks }

ParagraphBlocks(n) == [ k \in 1..n |-> createParagraphBlock(k) ]

BlankMarkdown == [blank |-> TRUE, tokens |-> << >>]
\* a link reference definition alone: not blank, but no block comes of it
DefMarkdown == [blank |-> FALSE, tokens |-> << [type |-> "def", text |-> 0] >>]
\* n paragraphs separated by blank lines
ParagraphsMarkdown(n) ==
  [blank |-> FALSE,
   tokens |-> [ k \in 1..(2 * n - 1) |->
                 IF k % 2 = 1 THEN [type |-> "paragraph", text |-> (k + 1) \div 2]
                 ELSE [type |-> "space", text |-> 0] ]]

Markdowns ==
  {BlankMarkdown, DefMarkdown} \cup { ParagraphsMarkdown(n) : n \in BlockCounts \ {0} }

\* ------------------------------------------------------------------------
\* List documents: the token tree the lexer yields for one top-level list.
\* A tree is described by the layout of the list at each nesting level: a
\* "leaf" item holds text only, a "todo" item is a checked task item, a "nest"
\* item holds text and the list of the next level.  Item texts are the
\* items' positions in document order.  In one level the "nest" items can be
\* task items ("task") or hold a second, one-item list before the nested
\* one ("double", as in "- a\n  - b\n\n  1. c").
\* ------------------------------------------------------------------------
MaxListDepth == 5

Layouts == { << "nest" >>, << "nest", "leaf" >>, << "leaf", "nest", "nest" >> }

LeafLayouts == { << "leaf" >>, << "leaf", "todo" >> }

Shapes ==
  UNION { { [ k \in 1..d |-> IF k = d THEN last ELSE inner[k] ]
            : inner \in [1..(d - 1) -> Layouts], last \in LeafLayouts }
          : d \in 1..MaxListDepth }

ListDocs ==
  { [shape |-> s, f |-> f, g |-> g, special |-> sp, at |-> a]
    : s \in Shapes, f \in BOOLEAN, g \in BOOLEAN,
      sp \in {"none", "task", "double"}, a \in 1..MaxListDepth }

WellFormedDoc(doc) ==
  IF doc.special = "none" THEN doc.at = 1 ELSE doc.at < Len(doc.shape)

Ordered(doc, level) == IF level = 1 THEN doc.f ELSE doc.g

Double(doc, level) == doc.special = "double" /\ doc.at = level

\* the number of items of one list of the level, nested ones included
RECURSIVE ItemCount(_, _)
ItemCount(doc, level) ==
  LET layout == doc.shape[level]
      nests == Cardinality({ k \in 1..Len(layout) : layout[k] = "nest" })
  IN IF nests = 0 THEN Len(layout)
     ELSE Len(layout)
            + nests * (ItemCount(doc, level + 1) + (IF Double(doc, level) THEN 1 ELSE 0))

ItemSize(doc, level, kind) ==
  IF kind = "nest"
    THEN 1 + ItemCount(doc, level + 1) + (IF Double(doc, level) THEN 1 ELSE 0)
    ELSE 1

TextToken(id) == [type |-> "text", text |-> << id >>]

LeafItem(id, task) ==
  [task |-> task, checked |-> task, text |-> << id >>, tokens |-> << TextToken(id) >>]

RECURSIVE ListToken(_, _, _)
RECURSIVE ListItems(_, _, _, _)
ListItem(doc, level, first, kind) ==
  IF kind = "nest"
    THEN [task |-> (doc.special = "task" /\ doc.at = level),
          checked |-> FALSE,
          text |-> << first >>,
          tokens |->
            IF Double(doc, level)
              THEN << TextToken(first),
                      [type |-> "list", ordered |-> ~Ordered(doc, level + 1),
                       items |-> << LeafItem(first + 1, FALSE) >>],
                      ListToken(doc, level + 1, first + 2) >>
              ELSE << TextToken(first), ListToken(doc, level + 1, first + 1) >>]
    ELSE LeafItem(first, kind = "todo")

ListItems(doc, level, first, k) ==
  LET layout == doc.shape[level]
  IN IF k > Len(layout) THEN << >>
     ELSE << ListItem(doc, level, first, layout[k]) >>
            \o ListItems(doc, level, first + ItemSize(doc, level, layout[k]), k + 1)

ListToken(doc, level, first) ==
  [type |-> "list", ordered |-> Ordered(doc, level),
   items |-> ListItems(doc, level, first, 1)]

ListMarkdown(doc) == [blank |-> FALSE, tokens |-> << ListToken(doc, 1, 1) >>]

ListMarkdowns == { ListMarkdown(doc) : doc \in { d \in ListDocs : WellFormedDoc(d) } }

OldBlock(id) == [type |-> "old", text |-> id]
OldChildren(m) == [ k \in 1..m |-> [id |-> k, block |-> OldBlock(k)] ]


\* ------------------------------------------------------------------------
\* State
\* ------------------------------------------------------------------------
VARIABLES
  container,           \* remote: the ordered children of the target container
  nextId,              \* remote: the id the next created block gets
  inflight,            \* requests sent to the remote and not yet answered
  conversionWarnings,  \* the module-level warnings buffer of markdownToBlocks
  inv,                 \* the invocations: position and local variables of each
  calls,               \* history: the remote calls sent and answered, in order
  container0,          \* history: the children when the invocation started
  chunkCall,           \* a direct call of chunkBlocks: arguments and result
  conv,                \* direct calls of the Markdown conversion functions
  http                 \* the HTTP server: its session map, transports and requests

vars == << container, nextId, inflight, conversionWarnings, inv, calls,
           container0, chunkCall, conv, http >>

NoBatchResult ==
  [success |-> FALSE, totalBlocks |-> 0, batchCount |-> 0,
   successfulBatches |-> 0, results |-> << >>, errors |-> << >>]

\* the "Conversion warnings" part of a result text
NoReport == [made |-> FALSE, warnings |-> << >>]

Idle ==
  [op |-> "none", pc |-> "idle",
   markdown |-> BlankMarkdown, validateBeforeDelete |-> TRUE,
   blocks |-> << >>, warnings |-> << >>,
   existingBlockIds |-> << >>, childIds |-> << >>, cursor |-> NoCursor,
   chunks |-> << >>, i |-> 0, results |-> << >>, errors |-> << >>,
   successfulBatches |-> 0, batchResult |-> NoBatchResult,
   d |-> 0, deletedCount |-> 0, deleteErrors |-> << >>,
   returned |-> "no", isError |-> FALSE,
   hasChildren |-> FALSE, hasMarkdown |-> FALSE, fromMarkdown |-> FALSE,
   report |-> NoReport]

NoChunkCall == [pc |-> "idle", blocks |-> << >>, chunkSize |-> 1, chunks |-> << >>]

NoConv == [pc |-> "idle"]

\* the HTTP server is not started
NoHttp == [stateful |-> FALSE, transports |-> {}, created |-> << >>, requests |-> << >>]

\* the entry points and their parameters
RewriteCalls ==
  { [Idle EXCEPT !.op = "rewritePage", !.pc = "rewritePage",
                 !.markdown = m, !.validateBeforeDelete = v]
    : m \in Markdowns, v \in BOOLEAN }

AppendCalls ==
  { [Idle EXCEPT !.op = "appendBlocksInBatches", !.pc = "appendBlocksInBatches",
                 !.blocks = ParagraphBlocks(n)]
    : n \in BlockCounts }

FetchCalls ==
  { [Idle EXCEPT !.op = "fetchAllChildBlockIds", !.pc = "fetchAllChildBlockIds"] }

\* appendBlockChildren: params.children given or not, params.markdown a
\* non-empty string (hasMarkdown; it can be all whitespace) or not
AppendChildrenCalls ==
  { [Idle EXCEPT !.op = "appendBlockChildren", !.pc = "appendBlockChildren",
                 !.hasMarkdown = TRUE, !.markdown = m]
    : m \in Markdowns }
  \cup
  { [Idle EXCEPT !.op = "appendBlockChildren", !.pc = "appendBlockChildren",
                 !.hasChildren = TRUE, !.blocks = ParagraphBlocks(n), !.hasMarkdown = hm]
    : n \in BlockCounts, hm \in BOOLEAN }
  \cup
  { [Idle EXCEPT !.op = "appendBlockChildren", !.pc = "appendBlockChildren"] }

CreatePageCalls ==
  { [Idle EXCEPT !.op = "createPage", !.pc = "createPage",
                 !.hasMarkdown = TRUE, !.markdown = m]
    : m \in Markdowns }
  \cup
  { [Idle EXCEPT !.op = "createPage", !.pc = "createPage",
                 !.hasChildren = TRUE, !.blocks = ParagraphBlocks(n), !.hasMarkdown = hm]
    : n \in BlockCounts, hm \in BOOLEAN }
  \cup
  { [Idle EXCEPT !.op = "createPage", !.pc = "createPage"] }

DeleteAllCalls ==
  { [Idle EXCEPT !.op = "deleteAllChildBlocks", !.pc = "fetchAllChildBlockIds"] }

InitRemote(m) ==
  /\ container = OldChildren(m)
  /\ container0 = container
  /\ nextId = m + 1
  /\ inflight = {}
  /\ http = NoHttp
  /\ calls = << >>
  /\ conversionWarnings = << >>

\* one invocation against a container with 0..MaxOldChildren children
Init ==
  /\ \E m \in 0..MaxOldChildren : InitRemote(m)
  /\ \E c \in RewriteCalls \cup AppendCalls \cup FetchCalls \cup DeleteAllCalls
               \cup AppendChildrenCalls \cup CreatePageCalls :
       inv = [p \in Procs |-> IF p = 1 THEN c ELSE Idle]
  /\ chunkCall = NoChunkCall
  /\ conv = NoConv

Update(p, r) == inv' = [inv EXCEPT ![p] = r]

Log(p, kind, ev, arg) ==
  calls' = Append(calls, [p |-> p, kind |-> kind, ev |-> ev, arg |-> arg])

Request(p, kind, start_cursor, children, block_id) ==
  [p |-> p, kind |-> kind, seq |-> Len(calls), page_size |-> PAGE_SIZE,
   start_cursor |-> start_cursor, children |-> children, block_id |-> block_id]

Pending(p, kind) == { r \in inflight : r.p = p /\ r.kind = kind }

Ids(children) == [ k \in 1..Len(children) |-> children[k].id ]

\* ------------------------------------------------------------------------
\* The remote block API
\* ------------------------------------------------------------------------
\* position of the child a cursor names (0 when there is none)
CursorPos(children, cursor) ==
  IF cursor = NoCursor THEN IF Len(children) = 0 THEN 0 ELSE 1
  ELSE IF \E k \in 1..Len(children) : children[k].id = cursor
    THEN CHOOSE k \in 1..Len(children) : children[k].id = cursor
    ELSE 0

\* children.list: one page of children starting at the cursor
RemoteList(children, start_cursor, page_size) ==
  LET pos == CursorPos(children, start_cursor)
      last == Min(pos + Min(page_size, RemotePageCap) - 1, Len(children))
      more == pos > 0 /\ last < Len(children)
  IN [results |-> IF pos = 0 THEN << >> ELSE SubSeq(children, pos, last),
      has_more |-> more,
      next_cursor |-> IF more THEN children[last + 1].id ELSE NoCursor]

\* children.append: the request's blocks become the last children, atomically
RemoteAppend(children, blocks, firstId) ==
  children \o [ k \in 1..Len(blocks) |-> [id |-> firstId + k - 1, block |-> blocks[k]] ]

\* blocks.delete: the child with this id is gone
RemoteDelete(children, block_id) ==
  SelectSeq(children, LAMBDA c : c.id /= block_id)


\* ------------------------------------------------------------------------
\* rewritePage, steps 1 and 2: convert, reject an empty result, then fetch
\* the existing ids (validateBeforeDelete) or go on to the append
\* ------------------------------------------------------------------------
\* variant: the blocks.length === 0 check is missing
RewriteConvertNoEmptyCheck(p) ==
  LET r == inv[p]
      blocks == markdownToBlocks(r.markdown)
      after == markdownToBlocksWarnings(r.markdown, conversionWarnings)
      r1 == [r EXCEPT !.blocks = blocks, !.warnings = after]
  IN /\ r.pc = "rewritePage"
     /\ conversionWarnings' = after
     /\ IF r.validateBeforeDelete
          THEN Update(p, [r1 EXCEPT !.pc = "fetchAllChildBlockIds"])
          ELSE Update(p, [r1 EXCEPT !.existingBlockIds = << >>,
                                    !.pc = "appendBlocksInBatches"])
     /\ UNCHANGED << container, nextId, inflight, calls, container0, chunkCall, conv, http >>

RewriteConvert(p) ==
  /\ inv[p].pc = "rewritePage"
  /\ \E blocks \in { markdownToBlocks(inv[p].markdown) },
        after \in { markdownToBlocksWarnings(inv[p].markdown, conversionWarnings) } :
       LET r == inv[p]
           r1 == [r EXCEPT !.blocks = blocks, !.warnings = after]
       IN /\ conversionWarnings' = after
          /\ IF Len(blocks) = 0
               THEN Update(p, [r1 EXCEPT !.pc = "done", !.returned = "value",
                                         !.isError = TRUE])
               ELSE IF r.validateBeforeDelete
                 THEN Update(p, [r1 EXCEPT !.pc = "fetchAllChildBlockIds"])
                 ELSE Update(p, [r1 EXCEPT !.existingBlockIds = << >>,
                                           !.pc = "appendBlocksInBatches"])
  /\ UNCHANGED << container, nextId, inflight, calls, container0, chunkCall, conv, http >>

\* ------------------------------------------------------------------------
\* fetchAllChildBlockIds
\* ------------------------------------------------------------------------
FetchBegin(p) ==
  /\ inv[p].pc = "fetchAllChildBlockIds"
  /\ Update(p, [inv[p] EXCEPT !.childIds = << >>, !.cursor = NoCursor, !.pc = "list_send"])
  /\ UNCHANGED << container, nextId, inflight, conversionWarnings, calls,
                  container0, chunkCall, conv, http >>

ListSend(p) ==
  /\ inv[p].pc = "list_send"
  /\ inflight' = inflight \cup {Request(p, "list", inv[p].cursor, << >>, NoCursor)}
  /\ Log(p, "list", "send", inv[p].cursor)
  /\ Update(p, [inv[p] EXCEPT !.pc = "list_wait"])
  /\ UNCHANGED << container, nextId, conversionWarnings, container0, chunkCall, conv, http >>

\* the value fetchAllChildBlockIds returns goes to its caller
FetchReturn(r, childIds) ==
  IF r.op = "rewritePage"
    THEN [r EXCEPT !.childIds = childIds, !.existingBlockIds = childIds,
                   !.pc = "appendBlocksInBatches"]
    ELSE IF r.op = "deleteAllChildBlocks"
      THEN [r EXCEPT !.childIds = childIds, !.deletedCount = 0, !.d = 0,
                     !.pc = "deleteAll_loop"]
      ELSE [r EXCEPT !.childIds = childIds, !.pc = "done", !.returned = "value"]

\* variant: only the first page is read
NextCursorNone(response) == NoCursor

\* cursor = response.has_more ? response.next_cursor ?? undefined : undefined
NextCursor(response) ==
  IF response.has_more THEN response.next_cursor ELSE NoCursor

ListOk(p) ==
  \E q \in Pending(p, "list") :
    LET r == inv[p]
        response == RemoteList(container, q.start_cursor, q.page_size)
        childIds == r.childIds \o Ids(response.results)
        cursor == NextCursor(response)
    IN /\ r.pc = "list_wait"
       /\ q.start_cursor = NoCursor \/ CursorPos(container, q.start_cursor) > 0
       /\ inflight' = inflight \ {q}
       /\ Log(p, "list", "ok", q.start_cursor)
       /\ IF cursor /= NoCursor
            THEN Update(p, [r EXCEPT !.childIds = childIds, !.cursor = cursor,
                                     !.pc = "list_send"])
            ELSE Update(p, FetchReturn([r EXCEPT !.cursor = cursor], childIds))
       /\ UNCHANGED << container, nextId, conversionWarnings, container0, chunkCall, conv, http >>

\* the list call throws: rewritePage's catch turns it into an error result,
\* a direct caller of fetchAllChildBlockIds sees the exception
ListFail(p) ==
  \E q \in Pending(p, "list") :
    LET r == inv[p]
    IN /\ r.pc = "list_wait"
       /\ inflight' = inflight \ {q}
       /\ Log(p, "list", "fail", q.start_cursor)
       /\ IF r.op = "rewritePage"
            THEN Update(p, [r EXCEPT !.pc = "done", !.returned = "value", !.isError = TRUE])
            ELSE Update(p, [r EXCEPT !.pc = "done", !.returned = "thrown"])
       /\ UNCHANGED << container, nextId, conversionWarnings, container0, chunkCall, conv, http >>


\* ------------------------------------------------------------------------
\* deleteBlocksByIds and the rest of rewritePage (steps 3 to 5)
\* ------------------------------------------------------------------------
\* the result rewritePage builds after the old blocks were handled
RewriteSummary(r) ==
  [r EXCEPT !.pc = "done", !.returned = "value", !.isError = FALSE,
            !.report = [made |-> TRUE, warnings |-> r.warnings]]

\* variant: a partly successful append is taken for a success
RewriteAfterAppendPartial(r, batchResult) ==
  IF batchResult.successfulBatches = 0
    THEN [r EXCEPT !.batchResult = batchResult,
                   !.pc = "done", !.returned = "value", !.isError = TRUE]
    ELSE [r EXCEPT !.batchResult = batchResult,
                   !.deletedCount = 0, !.deleteErrors = << >>, !.d = 0,
                   !.pc = "delete_loop"]

\* variant: the old blocks are deleted without looking at batchResult.success
RewriteAfterAppendUnchecked(r, batchResult) ==
  [r EXCEPT !.batchResult = batchResult,
            !.deletedCount = 0, !.deleteErrors = << >>, !.d = 0,
            !.pc = "delete_loop"]

\* rewritePage after appendBlocksInBatches returned
RewriteAfterAppend(r, batchResult) ==
  IF ~batchResult.success
    THEN [r EXCEPT !.batchResult = batchResult,
                   !.pc = "done", !.returned = "value", !.isError = TRUE]
    ELSE IF Len(r.existingBlockIds) > 0
      THEN [r EXCEPT !.batchResult = batchResult,
                     !.deletedCount = 0, !.deleteErrors = << >>, !.d = 0,
                     !.pc = "delete_loop"]
      ELSE RewriteSummary([r EXCEPT !.batchResult = batchResult,
                                    !.deletedCount = 0, !.deleteErrors = << >>])

DeleteSend(p) ==
  LET r == inv[p]
  IN /\ r.pc = "delete_loop"
     /\ r.d < Len(r.existingBlockIds)
     /\ inflight' = inflight \cup
          {Request(p, "delete", NoCursor, << >>, r.existingBlockIds[r.d + 1])}
     /\ Log(p, "delete", "send", r.existingBlockIds[r.d + 1])
     /\ Update(p, [r EXCEPT !.pc = "delete_wait"])
     /\ UNCHANGED << container, nextId, conversionWarnings, container0, chunkCall, conv, http >>

DeleteOk(p) ==
  \E q \in Pending(p, "delete") :
    LET r == inv[p]
    IN /\ r.pc = "delete_wait"
       /\ \E k \in 1..Len(container) : container[k].id = q.block_id
       /\ container' = RemoteDelete(container, q.block_id)
       /\ inflight' = inflight \ {q}
       /\ Log(p, "delete", "ok", q.block_id)
       /\ Update(p, [r EXCEPT !.deletedCount = @ + 1, !.d = @ + 1, !.pc = "delete_loop"])
       /\ UNCHANGED << nextId, conversionWarnings, container0, chunkCall, conv, http >>

\* variant: the first failing delete ends the loop
DeleteFailAbort(p) ==
  \E q \in Pending(p, "delete") :
    LET r == inv[p]
    IN /\ r.pc = "delete_wait"
       /\ inflight' = inflight \ {q}
       /\ Log(p, "delete", "fail", q.block_id)
       /\ Update(p, [r EXCEPT
            !.deleteErrors = Append(@, [blockId |-> q.block_id, error |-> "APIError"]),
            !.d = Len(r.existingBlockIds), !.pc = "delete_loop"])
       /\ UNCHANGED << container, nextId, conversionWarnings, container0, chunkCall, conv, http >>

DeleteFail(p) ==
  \E q \in Pending(p, "delete") :
    LET r == inv[p]
    IN /\ r.pc = "delete_wait"
       /\ inflight' = inflight \ {q}
       /\ Log(p, "delete", "fail", q.block_id)
       /\ Update(p, [r EXCEPT
            !.deleteErrors = Append(@, [blockId |-> q.block_id, error |-> "APIError"]),
            !.d = @ + 1, !.pc = "delete_loop"])
       /\ UNCHANGED << container, nextId, conversionWarnings, container0, chunkCall, conv, http >>

DeleteDone(p) ==
  LET r == inv[p]
  IN /\ r.pc = "delete_loop"
     /\ r.d >= Len(r.existingBlockIds)
     /\ Update(p, RewriteSummary(r))
     /\ UNCHANGED << container, nextId, inflight, conversionWarnings, calls,
                     container0, chunkCall, conv, http >>

\* ------------------------------------------------------------------------
\* deleteAllChildBlocks: fetch the child ids, then delete them one by one
\* ------------------------------------------------------------------------
DeleteAllSend(p) ==
  LET r == inv[p]
  IN /\ r.pc = "deleteAll_loop"
     /\ r.d < Len(r.childIds)
     /\ inflight' = inflight \cup
          {Request(p, "delete", NoCursor, << >>, r.childIds[r.d + 1])}
     /\ Log(p, "delete", "send", r.childIds[r.d + 1])
     /\ Update(p, [r EXCEPT !.pc = "deleteAll_wait"])
     /\ UNCHANGED << container, nextId, conversionWarnings, container0, chunkCall, conv, http >>

DeleteAllOk(p) ==
  \E q \in Pending(p, "delete") :
    LET r == inv[p]
    IN /\ r.pc = "deleteAll_wait"
       /\ \E k \in 1..Len(container) : container[k].id = q.block_id
       /\ container' = RemoteDelete(container, q.block_id)
       /\ inflight' = inflight \ {q}
       /\ Log(p, "delete", "ok", q.block_id)
       /\ Update(p, [r EXCEPT !.deletedCount = @ + 1, !.d = @ + 1,
                              !.pc = "deleteAll_loop"])
       /\ UNCHANGED << nextId, conversionWarnings, container0, chunkCall, conv, http >>

\* variant: a failed delete is counted like a successful one
DeleteAllFailCounted(p) ==
  \E q \in Pending(p, "delete") :
    LET r == inv[p]
    IN /\ r.pc = "deleteAll_wait"
       /\ inflight' = inflight \ {q}
       /\ Log(p, "delete", "fail", q.block_id)
       /\ Update(p, [r EXCEPT !.deletedCount = @ + 1, !.d = @ + 1,
                              !.pc = "deleteAll_loop"])
       /\ UNCHANGED << container, nextId, conversionWarnings, container0, chunkCall, conv, http >>

\* the catch logs the failure (console.warn) and the loop goes on
DeleteAllFail(p) ==
  \E q \in Pending(p, "delete") :
    LET r == inv[p]
    IN /\ r.pc = "deleteAll_wait"
       /\ inflight' = inflight \ {q}
       /\ Log(p, "delete", "fail", q.block_id)
       /\ Update(p, [r EXCEPT !.d = @ + 1, !.pc = "deleteAll_loop"])
       /\ UNCHANGED << container, nextId, conversionWarnings, container0, chunkCall, conv, http >>

DeleteAllDone(p) ==
  LET r == inv[p]
  IN /\ r.pc = "deleteAll_loop"
     /\ r.d >= Len(r.childIds)
     /\ Update(p, [r EXCEPT !.pc = "done", !.returned = "value"])
     /\ UNCHANGED << container, nextId, inflight, conversionWarnings, calls,
                     container0, chunkCall, conv, http >>

\* ------------------------------------------------------------------------
\* appendBlocksInBatches
\* ------------------------------------------------------------------------
EmptyBatchResult ==
  [success |-> TRUE, totalBlocks |-> 0, batchCount |-> 0,
   successfulBatches |-> 0, results |-> << >>, errors |-> << >>]

\* variant: batchCount counts the answered chunks only
BatchResultCountsAnswered(r) ==
  [success |-> Len(r.errors) = 0,
   totalBlocks |-> Len(r.blocks),
   batchCount |-> Len(r.results),
   successfulBatches |-> r.successfulBatches,
   results |-> r.results,
   errors |-> r.errors]

BatchResult(r) ==
  [success |-> Len(r.errors) = 0,
   totalBlocks |-> Len(r.blocks),
   batchCount |-> Len(r.chunks),
   successfulBatches |-> r.successfulBatches,
   results |-> r.results,
   errors |-> r.errors]

\* the value appendBlocksInBatches returns goes to its caller
AppendReturn(r, batchResult) ==
  IF r.op = "rewritePage"
    THEN RewriteAfterAppend(r, batchResult)
    ELSE IF r.op = "appendBlockChildren"
      THEN [r EXCEPT !.batchResult = batchResult, !.pc = "done", !.returned = "value",
                     !.isError = ~batchResult.success,
                     !.report = [made |-> TRUE, warnings |-> r.warnings]]
      ELSE [r EXCEPT !.batchResult = batchResult, !.pc = "done", !.returned = "value"]

AppendBegin(p) ==
  LET r == inv[p]
  IN /\ r.pc = "appendBlocksInBatches"
     /\ IF Len(r.blocks) = 0
          THEN Update(p, AppendReturn(r, EmptyBatchResult))
          ELSE Update(p, [r EXCEPT !.chunks = chunkBlocks(r.blocks, NOTION_BLOCK_LIMIT),
                                   !.results = << >>, !.errors = << >>,
                                   !.successfulBatches = 0, !.i = 0,
                                   !.pc = "append_loop"])
     /\ UNCHANGED << container, nextId, inflight, conversionWarnings, calls,
                     container0, chunkCall, conv, http >>

\* variant: the append call is not awaited, the loop goes on at once
AppendSendNoAwait(p) ==
  LET r == inv[p]
  IN /\ r.pc = "append_loop"
     /\ r.i < Len(r.chunks)
     /\ inflight' = inflight \cup {Request(p, "append", NoCursor, r.chunks[r.i + 1], NoCursor)}
     /\ Log(p, "append", "send", r.i)
     /\ Update(p, [r EXCEPT !.i = @ + 1])
     /\ UNCHANGED << container, nextId, conversionWarnings, container0, chunkCall, conv, http >>

AppendSend(p) ==
  LET r == inv[p]
  IN /\ r.pc = "append_loop"
     /\ r.i < Len(r.chunks)
     /\ inflight' = inflight \cup {Request(p, "append", NoCursor, r.chunks[r.i + 1], NoCursor)}
     /\ Log(p, "append", "send", r.i)
     /\ Update(p, [r EXCEPT !.pc = "append_wait"])
     /\ UNCHANGED << container, nextId, conversionWarnings, container0, chunkCall, conv, http >>

AppendOk(p) ==
  \E q \in Pending(p, "append") :
    LET r == inv[p]
        response == [first |-> nextId, count |-> Len(q.children)]
    IN /\ r.pc = "append_wait"
       /\ container' = RemoteAppend(container, q.children, nextId)
       /\ nextId' = nextId + Len(q.children)
       /\ inflight' = inflight \ {q}
       /\ Log(p, "append", "ok", r.i)
       /\ Update(p, [r EXCEPT !.results = Append(@, response),
                              !.successfulBatches = @ + 1,
                              !.i = @ + 1, !.pc = "append_loop"])
       /\ UNCHANGED << conversionWarnings, container0, chunkCall, conv, http >>

\* variant: the first failing chunk ends the loop
AppendFailAbort(p) ==
  \E q \in Pending(p, "append") :
    LET r == inv[p]
    IN /\ r.pc = "append_wait"
       /\ inflight' = inflight \ {q}
       /\ Log(p, "append", "fail", r.i)
       /\ Update(p, [r EXCEPT
            !.errors = Append(@, [batchIndex |-> r.i, error |-> "APIError"]),
            !.i = Len(r.chunks), !.pc = "append_loop"])
       /\ UNCHANGED << container, nextId, conversionWarnings, container0, chunkCall, conv, http >>

AppendFail(p) ==
  \E q \in Pending(p, "append") :
    LET r == inv[p]
    IN /\ r.pc = "append_wait"
       /\ inflight' = inflight \ {q}
       /\ Log(p, "append", "fail", r.i)
       /\ Update(p, [r EXCEPT
            !.errors = Append(@, [batchIndex |-> r.i, error |-> "APIError"]),
            !.i = @ + 1, !.pc = "append_loop"])
       /\ UNCHANGED << container, nextId, conversionWarnings, container0, chunkCall, conv, http >>

AppendDone(p) ==
  LET r == inv[p]
  IN /\ r.pc = "append_loop"
     /\ r.i >= Len(r.chunks)
     /\ Update(p, AppendReturn(r, BatchResult(r)))
     /\ UNCHANGED << container, nextId, inflight, conversionWarnings, calls,
                     container0, chunkCall, conv, http >>

\* ------------------------------------------------------------------------
\* Specification: one invocation of rewritePage, appendBlocksInBatches or
\* fetchAllChildBlockIds against the remote
\* ------------------------------------------------------------------------
\* ------------------------------------------------------------------------
\* appendBlockChildren
\* ------------------------------------------------------------------------
\* the parameter checks, the conversion and, for at most NOTION_BLOCK_LIMIT
\* blocks, the single children.append call
AppendChildrenBegin(p) ==
  /\ inv[p].pc = "appendBlockChildren"
  /\ IF inv[p].hasChildren = inv[p].hasMarkdown
       THEN /\ Update(p, [inv[p] EXCEPT !.pc = "done", !.returned = "value",
                                        !.isError = TRUE])
            /\ UNCHANGED << inflight, conversionWarnings, calls >>
       ELSE \E blocks \in { IF inv[p].hasMarkdown THEN markdownToBlocks(inv[p].markdown)
                             ELSE inv[p].blocks },
               after \in { IF inv[p].hasMarkdown
                             THEN markdownToBlocksWarnings(inv[p].markdown,
                                                           conversionWarnings)
                             ELSE conversionWarnings } :
              \E r1 \in { [inv[p] EXCEPT
                              !.blocks = blocks,
                              !.warnings = IF inv[p].hasMarkdown THEN after ELSE << >>,
                              !.fromMarkdown = inv[p].hasMarkdown] } :
                /\ conversionWarnings' = after
                /\ IF Len(blocks) > NOTION_BLOCK_LIMIT
                     THEN /\ Update(p, [r1 EXCEPT !.pc = "appendBlocksInBatches"])
                          /\ UNCHANGED << inflight, calls >>
                     ELSE /\ inflight' = inflight \cup
                               {Request(p, "append", NoCursor, blocks, NoCursor)}
                          /\ Log(p, "append", "send", 0)
                          /\ Update(p, [r1 EXCEPT !.pc = "children_wait"])
  /\ UNCHANGED << container, nextId, container0, chunkCall, conv, http >>

AppendChildrenOk(p) ==
  \E q \in Pending(p, "append") :
    LET r == inv[p]
    IN /\ r.pc = "children_wait"
       /\ container' = RemoteAppend(container, q.children, nextId)
       /\ nextId' = nextId + Len(q.children)
       /\ inflight' = inflight \ {q}
       /\ Log(p, "append", "ok", 0)
       /\ Update(p, [r EXCEPT !.pc = "done", !.returned = "value", !.isError = FALSE,
                              !.report = [made |-> TRUE, warnings |-> r.warnings]])
       /\ UNCHANGED << conversionWarnings, container0, chunkCall, conv, http >>

\* the catch returns handleNotionError(error)
AppendChildrenFail(p) ==
  \E q \in Pending(p, "append") :
    LET r == inv[p]
    IN /\ r.pc = "children_wait"
       /\ inflight' = inflight \ {q}
       /\ Log(p, "append", "fail", 0)
       /\ Update(p, [r EXCEPT !.pc = "done", !.returned = "value", !.isError = TRUE])
       /\ UNCHANGED << container, nextId, conversionWarnings, container0, chunkCall, conv, http >>

\* ------------------------------------------------------------------------
\* The create-page tool: one pages.create request carries the children
\* ------------------------------------------------------------------------
\* the parameter check, the conversion and the call of notion.pages.create
CreatePageBegin(p) ==
  /\ inv[p].pc = "createPage"
  /\ IF inv[p].hasChildren /\ inv[p].hasMarkdown
       THEN /\ Update(p, [inv[p] EXCEPT !.pc = "done", !.returned = "value",
                                        !.isError = TRUE])
            /\ UNCHANGED << inflight, conversionWarnings, calls >>
       ELSE \E children \in { IF inv[p].hasMarkdown THEN markdownToBlocks(inv[p].markdown)
                               ELSE inv[p].blocks },
               after \in { IF inv[p].hasMarkdown
                             THEN markdownToBlocksWarnings(inv[p].markdown,
                                                           conversionWarnings)
                             ELSE conversionWarnings } :
              /\ conversionWarnings' = after
              /\ inflight' = inflight \cup
                   {Request(p, "create", NoCursor, children, NoCursor)}
              /\ Log(p, "create", "send", Len(children))
              /\ Update(p, [inv[p] EXCEPT !.pc = "create_wait", !.blocks = children,
                                          !.fromMarkdown = inv[p].hasMarkdown])
  /\ UNCHANGED << container, nextId, container0, chunkCall, conv, http >>

\* the page is created, with the children of the request, beside the container
CreatePageOk(p) ==
  \E q \in Pending(p, "create") :
    LET r == inv[p]
    IN /\ r.pc = "create_wait"
       /\ inflight' = inflight \ {q}
       /\ Log(p, "create", "ok", Len(q.children))
       /\ Update(p, [r EXCEPT !.pc = "done", !.returned = "value", !.isError = FALSE])
       /\ UNCHANGED << container, nextId, conversionWarnings, container0, chunkCall, conv, http >>

\* the catch returns handleNotionError(error)
CreatePageFail(p) ==
  \E q \in Pending(p, "create") :
    LET r == inv[p]
    IN /\ r.pc = "create_wait"
       /\ inflight' = inflight \ {q}
       /\ Log(p, "create", "fail", 0)
       /\ Update(p, [r EXCEPT !.pc = "done", !.returned = "value", !.isError = TRUE])
       /\ UNCHANGED << container, nextId, conversionWarnings, container0, chunkCall, conv, http >>

Next ==
  \E p \in Procs :
    \/ RewriteConvert(p)
    \/ FetchBegin(p)
    \/ ListSend(p)
    \/ ListOk(p)
    \/ ListFail(p)
    \/ AppendBegin(p)
    \/ AppendSend(p)
    \/ AppendOk(p)
    \/ AppendFail(p)
    \/ AppendDone(p)
    \/ DeleteSend(p)
    \/ DeleteOk(p)
    \/ DeleteFail(p)
    \/ DeleteDone(p)
    \/ DeleteAllSend(p)
    \/ DeleteAllOk(p)
    \/ DeleteAllFail(p)
    \/ DeleteAllDone(p)
    \/ AppendChildrenBegin(p)
    \/ AppendChildrenOk(p)
    \/ AppendChildrenFail(p)
    \/ CreatePageBegin(p)
    \/ CreatePageOk(p)
    \/ CreatePageFail(p)

Spec == Init /\ [][Next]_vars

\* ------------------------------------------------------------------------
\* Specification: chunkBlocks called on its own, with any chunk size >= 1
\* ------------------------------------------------------------------------
Items == {"a", "b"}

RECURSIVE SeqsUpTo(_)
SeqsUpTo(n) ==
  IF n = 0 THEN { << >> }
  ELSE LET shorter == SeqsUpTo(n - 1)
       IN shorter \cup { Append(s, x) : s \in { t \in shorter : Len(t) = n - 1 }, x \in Items }

InitChunk ==
  /\ InitRemote(0)
  /\ inv = [p \in Procs |-> Idle]
  /\ conv = NoConv
  /\ \E blocks \in SeqsUpTo(MaxChunkInput), chunkSize \in 1..MaxChunkSize :
       chunkCall = [pc |-> "call", blocks |-> blocks, chunkSize |-> chunkSize,
                    chunks |-> << >>]

ChunkCall ==
  /\ chunkCall.pc = "call"
  /\ chunkCall' = [chunkCall EXCEPT
       !.chunks = chunkBlocks(chunkCall.blocks, chunkCall.chunkSize), !.pc = "done"]
  /\ UNCHANGED << container, nextId, inflight, conversionWarnings, inv, calls,
                  container0, conv, http >>

NextChunk == ChunkCall

SpecChunk == InitChunk /\ [][NextChunk]_vars

\* ------------------------------------------------------------------------
\* markdownToBlocks called directly on one list document
\* ------------------------------------------------------------------------
InitConvert ==
  /\ container = << >>
  /\ container0 = << >>
  /\ nextId = 1
  /\ inflight = {}
  /\ http = NoHttp
  /\ conversionWarnings = << >>
  /\ calls = << >>
  /\ inv = [p \in Procs |-> Idle]
  /\ chunkCall = NoChunkCall
  /\ \E m \in ListMarkdowns :
       conv = [pc |-> "call", markdown |-> m, blocks |-> << >>, warnings |-> << >>,
               n |-> 1]

ConvertCall ==
  /\ conv.pc = "call"
  /\ conversionWarnings' = markdownToBlocksWarnings(conv.markdown, conversionWarnings)
  /\ conv' = [conv EXCEPT !.pc = "getConversionWarnings",
                          !.blocks = markdownToBlocks(conv.markdown)]
  /\ UNCHANGED << container, nextId, inflight, inv, calls, container0, chunkCall, http >>

getConversionWarnings ==
  /\ conv.pc = "getConversionWarnings"
  /\ conv' = [conv EXCEPT !.pc = "done", !.warnings = conversionWarnings]
  /\ UNCHANGED << container, nextId, inflight, conversionWarnings, inv, calls,
                  container0, chunkCall, http >>

NextConvert == ConvertCall \/ getConversionWarnings

SpecConvert == InitConvert /\ [][NextConvert]_vars

\* ------------------------------------------------------------------------
\* splitTextIntoChunks called as createPlainTextRichText calls it, with the
\* default maxLength.  The texts are up to MaxTextChunks limits long (one
\* character less, one more); their break characters sit at the places
\* that are given offsets away from the multiples of the limit.
\* ------------------------------------------------------------------------
MaxTextChunks == 2

TextLengths ==
  { n \in { k * MAX_RICH_TEXT_LENGTH + r : k \in 0..MaxTextChunks, r \in {-1, 0, 1} } : n >= 0 }

BreakOffsets ==
  { 0, 1, MAX_RICH_TEXT_LENGTH - SPLIT_LOOKBACK, MAX_RICH_TEXT_LENGTH - SPLIT_LOOKBACK + 1,
    MAX_RICH_TEXT_LENGTH - 1 }

Text(n, offsets, breakChar) ==
  [ k \in 1..n |-> IF (k % MAX_RICH_TEXT_LENGTH) \in offsets THEN breakChar ELSE "a" ]

Texts ==
  { Text(n, offsets, c) : n \in TextLengths, offsets \in SUBSET BreakOffsets, c \in {" ", "."} }

InitSplit ==
  /\ container = << >>
  /\ container0 = << >>
  /\ nextId = 1
  /\ inflight = {}
  /\ http = NoHttp
  /\ conversionWarnings = << >>
  /\ calls = << >>
  /\ inv = [p \in Procs |-> Idle]
  /\ chunkCall = NoChunkCall
  /\ \E t \in Texts :
       conv = [pc |-> "splitTextIntoChunks", text |-> t,
               maxLength |-> MAX_RICH_TEXT_LENGTH, remaining |-> t, chunks |-> << >>]

\* if (text.length <= maxLength) return [text]
SplitBegin ==
  /\ conv.pc = "splitTextIntoChunks"
  /\ conv' = IF Len(conv.text) <= conv.maxLength
               THEN [conv EXCEPT !.pc = "done", !.chunks = << conv.text >>]
               ELSE [conv EXCEPT !.pc = "while"]
  /\ UNCHANGED << container, nextId, inflight, conversionWarnings, inv, calls,
                  container0, chunkCall, http >>

\* one pass of while (remaining.length > 0)
SplitIteration ==
  /\ conv.pc = "while"
  /\ conv' =
       IF Len(conv.remaining) = 0
         THEN [conv EXCEPT !.pc = "done"]
       ELSE IF Len(conv.remaining) <= conv.maxLength
         THEN [conv EXCEPT !.pc = "done", !.chunks = Append(@, conv.remaining)]
       ELSE LET splitIndex == SplitIndex(conv.remaining, conv.maxLength)
            IN [conv EXCEPT
                  !.chunks = Append(@, SubSeq(conv.remaining, 1, splitIndex)),
                  !.remaining = SubSeq(conv.remaining, splitIndex + 1, Len(conv.remaining))]
  /\ UNCHANGED << container, nextId, inflight, conversionWarnings, inv, calls,
                  container0, chunkCall, http >>

NextSplit == SplitBegin \/ SplitIteration

\* the call runs on once it was made
SpecSplit == InitSplit /\ [][NextSplit]_vars /\ WF_vars(NextSplit)

\* ------------------------------------------------------------------------
\* A caller converting up to MaxConversions documents one after the other,
\* reading the warnings after each conversion or not
\* ------------------------------------------------------------------------
MaxConversions == 3

FourLevelList ==
  ListMarkdown([shape |-> << << "nest" >>, << "nest" >>, << "nest" >>, << "leaf" >> >>,
                f |-> FALSE, g |-> FALSE, special |-> "none", at |-> 1])

WarningMarkdowns ==
  { BlankMarkdown, DefMarkdown, ParagraphsMarkdown(1), FourLevelList }

InitConversions ==
  /\ container = << >>
  /\ container0 = << >>
  /\ nextId = 1
  /\ inflight = {}
  /\ http = NoHttp
  /\ conversionWarnings = << >>
  /\ calls = << >>
  /\ inv = [p \in Procs |-> Idle]
  /\ chunkCall = NoChunkCall
  /\ \E m \in WarningMarkdowns :
       conv = [pc |-> "call", markdown |-> m, blocks |-> << >>, warnings |-> << >>,
               n |-> 1]

NextConversion ==
  /\ conv.pc \in {"getConversionWarnings", "done"}
  /\ conv.n < MaxConversions
  /\ \E m \in WarningMarkdowns :
       conv' = [conv EXCEPT !.pc = "call", !.markdown = m, !.n = @ + 1]
  /\ UNCHANGED << container, nextId, inflight, conversionWarnings, inv, calls,
                  container0, chunkCall, http >>

NextConversions == ConvertCall \/ getConversionWarnings \/ NextConversion

SpecConversions == InitConversions /\ [][NextConversions]_vars

\* ------------------------------------------------------------------------
\* Several tool invocations that convert Markdown, interleaved at their
\* await points, against a container with at most one child
\* ------------------------------------------------------------------------
SmallMarkdowns == { BlankMarkdown, DefMarkdown, ParagraphsMarkdown(1) }

ConvertingCalls ==
  { [Idle EXCEPT !.op = "rewritePage", !.pc = "rewritePage",
                 !.markdown = m, !.validateBeforeDelete = v]
    : m \in SmallMarkdowns, v \in BOOLEAN }
  \cup
  { [Idle EXCEPT !.op = "appendBlockChildren", !.pc = "appendBlockChildren",
                 !.hasMarkdown = TRUE, !.markdown = m]
    : m \in SmallMarkdowns }

InitInvocations ==
  /\ \E m \in 0..1 : InitRemote(m)
  /\ inv \in [Procs -> ConvertingCalls]
  /\ Cardinality({ p \in Procs : inv[p].op = "rewritePage" }) <= 1
  /\ chunkCall = NoChunkCall
  /\ conv = NoConv

NextInvocations ==
  \E p \in Procs :
    \/ RewriteConvert(p)
    \/ FetchBegin(p)
    \/ ListSend(p)
    \/ ListOk(p)
    \/ ListFail(p)
    \/ AppendBegin(p)
    \/ AppendSend(p)
    \/ AppendOk(p)
    \/ AppendFail(p)
    \/ AppendDone(p)
    \/ DeleteSend(p)
    \/ DeleteOk(p)
    \/ DeleteFail(p)
    \/ DeleteDone(p)
    \/ AppendChildrenBegin(p)
    \/ AppendChildrenOk(p)
    \/ AppendChildrenFail(p)

SpecInvocations == InitInvocations /\ [][NextInvocations]_vars


\* ------------------------------------------------------------------------
\* Two rewritePage invocations on the same container, their remote calls
\* interleaved in every order, each call answered or failed.  The container
\* starts with one child; the documents make one block or two.
\* ------------------------------------------------------------------------
RewriteMarkdowns == { ParagraphsMarkdown(1), ParagraphsMarkdown(2) }

ConcurrentRewriteCalls ==
  { [Idle EXCEPT !.op = "rewritePage", !.pc = "rewritePage",
                 !.markdown = m, !.validateBeforeDelete = v]
    : m \in RewriteMarkdowns, v \in BOOLEAN }

InitRewrites ==
  /\ InitRemote(1)
  /\ \E a \in ConcurrentRewriteCalls, b \in ConcurrentRewriteCalls :
       inv = [p \in Procs |-> IF p = 1 THEN a ELSE IF p = 2 THEN b ELSE Idle]
  /\ chunkCall = NoChunkCall
  /\ conv = NoConv

NextRewrites ==
  \E p \in Procs :
    \/ RewriteConvert(p)
    \/ FetchBegin(p)
    \/ ListSend(p)
    \/ ListOk(p)
    \/ ListFail(p)
    \/ AppendBegin(p)
    \/ AppendSend(p)
    \/ AppendOk(p)
    \/ AppendFail(p)
    \/ AppendDone(p)
    \/ DeleteSend(p)
    \/ DeleteOk(p)
    \/ DeleteFail(p)
    \/ DeleteDone(p)

SpecRewrites == InitRewrites /\ [][NextRewrites]_vars

\* ------------------------------------------------------------------------
\* markdownToBlocks on documents of every token kind, and
\* createPlainTextRichText called directly.  Short texts are made of up to
\* MaxFragments fragments of inline syntax; a document is one token of the
\* pool with up to MaxFillers other tokens before and after it.
\* ------------------------------------------------------------------------
MaxFragments == 3

MaxFillers == 2

Fragments ==
  { << "a" >>, << " " >>, << "*" >>, << "*", "*" >>, << "_" >>, << "~", "~" >>,
    << Backquote >>, << "!", "[" >>, << "[" >>, << "]", "(", "u", ")" >>,
    << "\\" >>, << "\n" >> }

\* the texts of up to n fragments
FragmentTexts(n) ==
  { Flat(parts) : parts \in UNION { [1..k -> Fragments] : k \in 0..n } }

LongText(n) == Text(n, {1}, " ")

LongTexts ==
  { LongText(MAX_RICH_TEXT_LENGTH), LongText(MAX_RICH_TEXT_LENGTH + 1),
    << "*", "*" >> \o LongText(MAX_RICH_TEXT_LENGTH + 1) \o << "*", "*" >>,
    LongText(2 * MAX_RICH_TEXT_LENGTH + 1) }

RichTextInputs == FragmentTexts(MaxFragments) \cup LongTexts \cup { Null }

PlainA == << "a" >>

EmphasisA == << "*", "a", "*" >>

\* an image without alternative text: nothing is left of it once stripped
BareImage == << "!", "[", "]", "(", "u", ")" >>

HeadingTokens ==
  { [type |-> "heading", depth |-> d, text |-> PlainA] : d \in 1..4 }
  \cup { [type |-> "heading", depth |-> 1, text |-> t]
           : t \in { << >>, EmphasisA, BareImage } }

LanguageTags ==
  { Null, << >>, << "j", "s" >>, << "J", "S" >>, << "t", "s" >>, << "p", "y" >>,
    << "r", "b" >>, << "s", "h" >>, << "b", "a", "s", "h" >>, << "z", "s", "h" >>,
    << "y", "m", "l" >>, << "m", "d" >>, << "r", "u", "s", "t" >>,
    << "P", "y", "t", "h", "o", "n" >>,
    << "j", "a", "v", "a", "s", "c", "r", "i", "p", "t" >>,
    << "c", "o", "n", "s", "t", "r", "u", "c", "t", "o", "r" >> }

CodeTokens ==
  { [type |-> "code", text |-> EmphasisA, lang |-> l] : l \in LanguageTags }
  \cup { [type |-> "code", text |-> << >>, lang |-> Null] }

InlineText(raw) == [type |-> "text", raw |-> raw, text |-> raw]

ValidUrl == << "h", ":", "/", "/", "x" >>

InvalidUrls == { << "x", ".", "p", "n", "g" >>, << "x", "_", "y", "_", "z" >> }

Captions == { << >>, << "c" >>, << "c", "_", "d", "_", "e" >> }

InlineImage(href, text, title) ==
  [type |-> "image", raw |-> << "!", "[" >> \o text \o << "]", "(" >> \o href \o << ")" >>,
   href |-> href, text |-> text, title |-> title]

InlineImages ==
  { InlineImage(u, c, Null) : u \in InvalidUrls \cup { ValidUrl }, c \in Captions }
  \cup { InlineImage(u, << >>, << "t" >>) : u \in InvalidUrls \cup { ValidUrl } }

\* the text of a paragraph token is the raw text of its inline tokens
Paragraph(tokens) ==
  [type |-> "paragraph", text |-> Flat([ k \in 1..Len(tokens) |-> tokens[k].raw ]),
   tokens |-> tokens]

ParagraphTokens ==
  { Paragraph(<< InlineText(t) >>) : t \in { PlainA, EmphasisA } }
  \cup { Paragraph(<< i >>) : i \in InlineImages }
  \cup { Paragraph(<< InlineText(<< "a", " " >>), i, InlineText(<< " ", "b" >>) >>)
           : i \in { InlineImage(u, << >>, Null) : u \in InvalidUrls \cup { ValidUrl } } }

UnknownTokens == { [type |-> "table", text |-> PlainA], [type |-> "def", text |-> PlainA] }

QuoteTokens ==
  { [type |-> "blockquote", text |-> PlainA, tokens |-> << t >>]
      : t \in { Paragraph(<< InlineText(PlainA) >>), Paragraph(<< InlineText(BareImage) >>),
                [type |-> "html", text |-> << " ", "a", " " >>],
                [type |-> "code", text |-> PlainA, lang |-> Null],
                [type |-> "table", text |-> PlainA] } }
  \cup { [type |-> "blockquote", text |-> PlainA] }

TextItem(text, task) ==
  [task |-> task, checked |-> FALSE, text |-> text,
   tokens |-> << [type |-> "text", text |-> text] >>]

TextListTokens ==
  { [type |-> "list", ordered |-> o, items |-> << TextItem(t, k) >>]
      : o \in BOOLEAN, k \in BOOLEAN, t \in { PlainA, BareImage } }

\* a list of one item that holds a nested list, with one item or none
NestedListTokens ==
  { [type |-> "list", ordered |-> o,
     items |-> << [task |-> FALSE, checked |-> FALSE, text |-> PlainA,
                   tokens |-> << [type |-> "text", text |-> PlainA],
                                 [type |-> "list", ordered |-> n, items |-> i] >>] >>]
      : o \in BOOLEAN, n \in BOOLEAN, i \in { << >>, << TextItem(EmphasisA, FALSE) >> } }

OtherTokens ==
  { [type |-> "hr", text |-> << >>], [type |-> "space", text |-> << "\n" >>],
    [type |-> "html", text |-> << " ", "a", " " >>], [type |-> "html", text |-> << " " >>] }

SubjectTokens ==
  HeadingTokens \cup CodeTokens \cup ParagraphTokens \cup UnknownTokens
    \cup QuoteTokens \cup TextListTokens \cup NestedListTokens \cup OtherTokens

FillerTokens ==
  { Paragraph(<< InlineText(PlainA) >>), [type |-> "hr", text |-> << >>],
    [type |-> "table", text |-> PlainA] }

\* the sequences of up to n fillers
FillerSeqs(n) == UNION { [1..k -> FillerTokens] : k \in 0..n }

\* tokens holding a text at and beyond the limit of one text run
LongTokens ==
  { [type |-> "heading", depth |-> 2, text |-> LongText(MAX_RICH_TEXT_LENGTH + 1)],
    [type |-> "code", text |-> LongText(MAX_RICH_TEXT_LENGTH), lang |-> Null],
    [type |-> "code", text |-> LongText(MAX_RICH_TEXT_LENGTH + 1), lang |-> Null],
    Paragraph(<< InlineText(LongText(2 * MAX_RICH_TEXT_LENGTH + 1)) >>),
    [type |-> "blockquote", text |-> LongText(MAX_RICH_TEXT_LENGTH + 1),
     tokens |-> << [type |-> "html", text |-> LongText(MAX_RICH_TEXT_LENGTH + 1)] >>] }

TokenMarkdowns ==
  { [blank |-> FALSE, tokens |-> before \o << t >> \o after]
      : t \in SubjectTokens,
        before \in FillerSeqs(MaxFillers), after \in FillerSeqs(1) }
  \cup { [blank |-> FALSE, tokens |-> << t >>] : t \in LongTokens }

InitRichText ==
  /\ container = << >>
  /\ container0 = << >>
  /\ nextId = 1
  /\ inflight = {}
  /\ http = NoHttp
  /\ conversionWarnings = << >>
  /\ calls = << >>
  /\ inv = [p \in Procs |-> Idle]
  /\ chunkCall = NoChunkCall
  /\ \/ \E m \in TokenMarkdowns :
          conv = [pc |-> "call", markdown |-> m, blocks |-> << >>, warnings |-> << >>,
                  n |-> 1]
     \/ \E t \in RichTextInputs :
          conv = [pc |-> "createPlainTextRichText", text |-> t, richText |-> << >>]

RichTextCall ==
  /\ conv.pc = "createPlainTextRichText"
  /\ conv' = [conv EXCEPT !.pc = "returned", !.richText = createPlainTextRichText(conv.text)]
  /\ UNCHANGED << container, nextId, inflight, conversionWarnings, inv, calls,
                  container0, chunkCall, http >>

NextRichText == ConvertCall \/ getConversionWarnings \/ RichTextCall

SpecRichText == InitRichText /\ [][NextRichText]_vars


\* ------------------------------------------------------------------------
\* The HTTP server (server/http.ts): the /mcp endpoint and its session map
\* ------------------------------------------------------------------------
\* the number of requests the server receives
MaxRequests == 3

\* the value of a missing Mcp-Session-Id header (undefined)
NoSessionId == 0

\* a header value the server never issued as a session id
ForgedSessionId == MaxRequests + 1

\* randomUUID(): an id that no earlier call returned
randomUUID == Len(http.created) + 1

\* the Map of session ids to transports, as a set of << key, value >> entries
TransportsHas(transports, sessionId) == \E e \in transports : e[1] = sessionId

TransportsGet(transports, sessionId) ==
  (CHOOSE e \in transports : e[1] = sessionId)[2]

TransportsSet(transports, sessionId, transport) ==
  { e \in transports : e[1] # sessionId } \cup { << sessionId, transport >> }

TransportsDelete(transports, sessionId) ==
  { e \in transports : e[1] # sessionId }

\* new StreamableHTTPServerTransport(options): the session id its generator
\* returns, whether the clean-up handler is installed, whether it is closed
NewTransport(newSessionId) ==
  [sessionId |-> newSessionId, onclose |-> FALSE, closed |-> FALSE]

\* a request in its handler: the header it carries, the await the handler
\* is at, the transport the handler chose, whether that transport's
\* handleRequest was called, and the status the handler answered
HttpRequest(method, sessionId, pc, transport, handled, status) ==
  [method |-> method, sessionId |-> sessionId, pc |-> pc,
   transport |-> transport, handled |-> handled, status |-> status]

\* a transport closes: it calls its onclose handler, which removes the
\* session from the map
TransportClosed(h, t) ==
  [h EXCEPT !.created[t].closed = TRUE,
            !.transports = IF h.created[t].onclose
                             THEN TransportsDelete(@, h.created[t].sessionId)
                             ELSE @]

\* the header values a client can send: none, an id the server issued, or
\* one it never issued
HeaderValues ==
  {NoSessionId, ForgedSessionId}
    \cup { http.created[t].sessionId : t \in DOMAIN http.created }

NotHttp ==
  << container, nextId, inflight, conversionWarnings, inv, calls,
     container0, chunkCall, conv >>

\* POST /mcp up to its first await
PostMcp ==
  \E sessionId \in HeaderValues :
    /\ Len(http.requests) < MaxRequests
    /\ IF http.stateful /\ sessionId # NoSessionId
            /\ TransportsHas(http.transports, sessionId)
         THEN LET transport == TransportsGet(http.transports, sessionId)
              IN http' = [http EXCEPT !.requests =
                            Append(@, HttpRequest("POST", sessionId, "handleRequest",
                                                  transport, TRUE, "pending"))]
         ELSE LET newSessionId == IF http.stateful THEN randomUUID ELSE NoSessionId
                  transport == Len(http.created) + 1
              IN http' = [http EXCEPT
                            !.created = Append(@, NewTransport(newSessionId)),
                            !.requests =
                              Append(@, HttpRequest("POST", sessionId, "connect",
                                                    transport, FALSE, "pending"))]
    /\ UNCHANGED NotHttp

\* server.connect(transport) returned: the session is stored and the
\* request is handed to the new transport
PostConnected(r) ==
  LET q == http.requests[r]
      newSessionId == http.created[q.transport].sessionId
  IN /\ q.pc = "connect"
     /\ http' = [http EXCEPT
                   !.transports = IF http.stateful /\ newSessionId # NoSessionId
                                    THEN TransportsSet(@, newSessionId, q.transport)
                                    ELSE @,
                   !.created[q.transport].onclose =
                      http.stateful /\ newSessionId # NoSessionId,
                   !.requests[r] = [q EXCEPT !.pc = "handleRequest",
                                             !.handled = TRUE]]
     /\ UNCHANGED NotHttp

\* server.connect(transport) threw: the catch answers 500
PostConnectFailed(r) ==
  LET q == http.requests[r]
  IN /\ q.pc = "connect"
     /\ http' = [http EXCEPT !.requests[r] = [q EXCEPT !.pc = "done",
                                                       !.status = "500"]]
     /\ UNCHANGED NotHttp

\* transport.handleRequest returned: the transport wrote the response
HandleRequestReturned(r) ==
  LET q == http.requests[r]
  IN /\ q.pc = "handleRequest"
     /\ http' = [http EXCEPT !.requests[r] = [q EXCEPT !.pc = "done",
                                                       !.status = "transport"]]
     /\ UNCHANGED NotHttp

\* transport.handleRequest threw: POST answers 500 unless the headers are
\* sent already; GET has no catch and leaves the request unanswered
HandleRequestThrew(r) ==
  LET q == http.requests[r]
  IN /\ q.pc = "handleRequest"
     /\ \E headersSent \in BOOLEAN :
          http' = [http EXCEPT !.requests[r] =
                     [q EXCEPT !.pc = "done",
                               !.status = IF headersSent THEN "transport"
                                          ELSE IF q.method = "POST" THEN "500"
                                          ELSE "pending"]]
     /\ UNCHANGED NotHttp

\* GET /mcp up to its first await
GetMcp ==
  \E sessionId \in HeaderValues :
    /\ Len(http.requests) < MaxRequests
    /\ IF ~http.stateful \/ sessionId = NoSessionId
            \/ ~TransportsHas(http.transports, sessionId)
         THEN http' = [http EXCEPT !.requests =
                         Append(@, HttpRequest("GET", sessionId, "done",
                                               NoSessionId, FALSE, "400"))]
         ELSE LET transport == TransportsGet(http.transports, sessionId)
              IN http' = [http EXCEPT !.requests =
                            Append(@, HttpRequest("GET", sessionId, "handleRequest",
                                                  transport, TRUE, "pending"))]
    /\ UNCHANGED NotHttp

\* DELETE /mcp up to its first await: transport.close() is called
DeleteMcp ==
  \E sessionId \in HeaderValues :
    /\ Len(http.requests) < MaxRequests
    /\ IF sessionId # NoSessionId /\ TransportsHas(http.transports, sessionId)
         THEN LET transport == TransportsGet(http.transports, sessionId)
                  closed == TransportClosed(http, transport)
              IN http' = [closed EXCEPT !.requests =
                            Append(@, HttpRequest("DELETE", sessionId, "close",
                                                  transport, FALSE, "pending"))]
         ELSE http' = [http EXCEPT !.requests =
                         Append(@, HttpRequest("DELETE", sessionId, "done",
                                               NoSessionId, FALSE, "404"))]
    /\ UNCHANGED NotHttp

\* transport.close() returned: the session is deleted and 200 is answered
DeleteClosed(r) ==
  LET q == http.requests[r]
  IN /\ q.pc = "close"
     /\ http' = [http EXCEPT
                   !.transports = TransportsDelete(@, q.sessionId),
                   !.requests[r] = [q EXCEPT !.pc = "done", !.status = "200"]]
     /\ UNCHANGED NotHttp

\* a connected transport closes on its own account (the client went away,
\* the server shut down)
TransportCloses(t) ==
  /\ ~http.created[t].closed
  /\ \A r \in DOMAIN http.requests :
       ~(http.requests[r].pc = "connect" /\ http.requests[r].transport = t)
  /\ http' = TransportClosed(http, t)
  /\ UNCHANGED NotHttp

\* the server starts in the stateless or in the stateful mode
InitHttp ==
  /\ container = << >>
  /\ container0 = << >>
  /\ nextId = 1
  /\ inflight = {}
  /\ conversionWarnings = << >>
  /\ calls = << >>
  /\ inv = [p \in Procs |-> Idle]
  /\ chunkCall = NoChunkCall
  /\ conv = NoConv
  /\ \E httpStateful \in BOOLEAN :
       http = [stateful |-> httpStateful, transports |-> {},
               created |-> << >>, requests |-> << >>]

NextHttp ==
  \/ PostMcp
  \/ GetMcp
  \/ DeleteMcp
  \/ \E r \in DOMAIN http.requests : PostConnected(r)
  \/ \E r \in DOMAIN http.requests : PostConnectFailed(r)
  \/ \E r \in DOMAIN http.requests : HandleRequestReturned(r)
  \/ \E r \in DOMAIN http.requests : HandleRequestThrew(r)
  \/ \E r \in DOMAIN http.requests : DeleteClosed(r)
  \/ \E t \in DOMAIN http.created : TransportCloses(t)

SpecHttp == InitHttp /\ [][NextHttp]_vars


\* ------------------------------------------------------------------------
\* Vocabulary of the properties
\* ------------------------------------------------------------------------
Events(p, kind, ev) ==
  SelectSeq(calls, LAMBDA c : c.p = p /\ c.kind = kind /\ c.ev = ev)

EventsOfKind(p, kind) == SelectSeq(calls, LAMBDA c : c.p = p /\ c.kind = kind)

Args(events) == [ k \in 1..Len(events) |-> events[k].arg ]

Blocks(children) == [ k \in 1..Len(children) |-> children[k].block ]

\* ceil(n / size)
CeilDiv(n, size) == (n + size - 1) \div size

\* 0, 1, ..., n - 1
Ascending(n) == [ k \in 1..n |-> k - 1 ]

\* appendBlocksInBatches has returned its BatchResult in invocation p
AppendReturned(p) == inv[p].batchResult /= NoBatchResult

RECURSIVE Flatten(_)
Flatten(chunks) ==
  IF Len(chunks) = 0 THEN << >> ELSE Head(chunks) \o Flatten(Tail(chunks))

C3_ExactlyNewContent ==
  \A p \in Procs :
    (/\ inv[p].op = "rewritePage"
     /\ inv[p].pc = "done"
     /\ ~inv[p].isError
     /\ Len(inv[p].deleteErrors) = 0) =>
       /\ Blocks(container) = inv[p].blocks
       /\ \A k \in 1..Len(container) :
            \A j \in 1..Len(container0) : container[k].id /= container0[j].id

\* ------------------------------------------------------------------------
\* C4: when the Markdown converts to zero blocks, rewritePage returns an
\* error result and has sent no remote call; the container is unchanged.
\* ------------------------------------------------------------------------
C4_EmptyConversionTouchesNothing ==
  \A p \in Procs :
    (inv[p].op = "rewritePage" /\ Len(markdownToBlocks(inv[p].markdown)) = 0) =>
      /\ Len(calls) = 0
      /\ inflight = {}
      /\ container = container0
      /\ inv[p].pc \in {"rewritePage", "done"}
      /\ inv[p].pc = "done" => (inv[p].returned = "value" /\ inv[p].isError)

C4_Witness ==
  /\ inv[1].op = "rewritePage"
  /\ inv[1].pc = "done"
  /\ inv[1].markdown = DefMarkdown
  /\ Len(inv[1].blocks) = 0
  /\ inv[1].isError
  /\ Len(container0) > 0


\* ------------------------------------------------------------------------
\* C5: in appendBlocksInBatches a failing chunk does not stop the loop:
\* chunks 0, 1, ... are each sent once, in ascending order, whatever earlier
\* chunks did; a failure is recorded as {batchIndex, error} with the index of
\* the chunk that failed; success is true iff no chunk failed.
\* ------------------------------------------------------------------------
C5_FailingChunkDoesNotStop ==
  \A p \in Procs :
    LET sent == Args(Events(p, "append", "send"))
        failed == Args(Events(p, "append", "fail"))
        n == Len(inv[p].blocks)
    IN /\ sent = Ascending(Len(sent))
       /\ \A q \in Pending(p, "append") :
            q.children = SubSeq(inv[p].blocks, NOTION_BLOCK_LIMIT * inv[p].i + 1,
                                Min(NOTION_BLOCK_LIMIT * (inv[p].i + 1), n))
       /\ AppendReturned(p) =>
            /\ Len(sent) = CeilDiv(n, NOTION_BLOCK_LIMIT)
            /\ [ k \in 1..Len(inv[p].batchResult.errors) |->
                   inv[p].batchResult.errors[k].batchIndex ] = failed
            /\ inv[p].batchResult.success <=> (Len(failed) = 0)

\* the first of three chunks failed, the two after it were sent and landed
C5_Witness ==
  /\ AppendReturned(1)
  /\ inv[1].batchResult.batchCount > 2
  /\ Args(Events(1, "append", "fail")) = << 0 >>
  /\ inv[1].batchResult.successfulBatches = inv[1].batchResult.batchCount - 1
  /\ ~inv[1].batchResult.success

\* ------------------------------------------------------------------------
\* C6: appendBlocksInBatches sends its chunks one after the other: an
\* invocation never has two append requests in flight, chunk i + 1 is sent
\* only after chunk i was answered, and when all chunks succeeded the
\* container holds its previous children followed by the input blocks in
\* their order.
\* ------------------------------------------------------------------------
C6_SequentialAppend ==
  \A p \in Procs :
    LET events == EventsOfKind(p, "append")
    IN /\ Cardinality(Pending(p, "append")) <= 1
       /\ \A k \in 1..Len(events) :
            IF k % 2 = 1
              THEN events[k].ev = "send"
              ELSE events[k].ev \in {"ok", "fail"} /\ events[k].arg = events[k - 1].arg
       /\ (/\ AppendReturned(p)
           /\ inv[p].batchResult.success
           /\ Len(EventsOfKind(p, "delete")) = 0) =>
             Blocks(container) = Blocks(container0) \o inv[p].blocks

\* three chunks landed behind the old children
C6_Witness ==
  /\ inv[1].op = "appendBlocksInBatches"
  /\ inv[1].pc = "done"
  /\ inv[1].batchResult.success
  /\ inv[1].batchResult.batchCount > 2
  /\ Len(container0) > 0
  /\ Len(container) = Len(container0) + Len(inv[1].blocks)

\* ------------------------------------------------------------------------
\* C7: the BatchResult of appendBlocksInBatches for N blocks has
\* totalBlocks = N, batchCount = ceil(N / 100), successfulBatches + number of
\* errors = batchCount and number of results = successfulBatches, for every
\* pattern of chunk failures; for N = 0 it is a success with all counts zero
\* and no remote call is made.
\* ------------------------------------------------------------------------
C7_BatchResultCounts ==
  \A p \in Procs :
    AppendReturned(p) =>
      LET b == inv[p].batchResult
          n == Len(inv[p].blocks)
      IN /\ b.totalBlocks = n
         /\ b.batchCount = CeilDiv(n, NOTION_BLOCK_LIMIT)
         /\ b.successfulBatches + Len(b.errors) = b.batchCount
         /\ Len(b.results) = b.successfulBatches
         /\ n = 0 =>
              /\ b.success
              /\ b.batchCount = 0 /\ b.successfulBatches = 0
              /\ Len(b.results) = 0 /\ Len(b.errors) = 0
              /\ Len(EventsOfKind(p, "append")) = 0

\* two of three chunks failed
C7_Witness ==
  /\ AppendReturned(1)
  /\ inv[1].batchResult.totalBlocks > 2 * NOTION_BLOCK_LIMIT
  /\ inv[1].batchResult.successfulBatches = 1
  /\ Len(inv[1].batchResult.errors) = 2

\* ------------------------------------------------------------------------
\* C8: chunkBlocks(blocks, size) with size >= 1 partitions its input: the
\* chunks concatenated in order are the input, there are ceil(N / size) of
\* them, each is non-empty and has at most size items, all but the last
\* have exactly size items, and an empty input gives no chunk.
\* ------------------------------------------------------------------------
C8_ChunksPartitionInput ==
  chunkCall.pc = "done" =>
    LET chunks == chunkCall.chunks
        n == Len(chunkCall.blocks)
        size == chunkCall.chunkSize
    IN /\ Flatten(chunks) = chunkCall.blocks
       /\ Len(chunks) = CeilDiv(n, size)
       /\ \A k \in 1..Len(chunks) :
            /\ Len(chunks[k]) >= 1
            /\ Len(chunks[k]) <= size
            /\ k < Len(chunks) => Len(chunks[k]) = size
       /\ n = 0 => chunks = << >>

\* five items in chunks of two: two full chunks and a last one of one item
C8_Witness ==
  /\ chunkCall.pc = "done"
  /\ Len(chunkCall.blocks) = 5
  /\ chunkCall.chunkSize = 2
  /\ Len(chunkCall.chunks) = 3
  /\ Len(chunkCall.chunks[3]) = 1

\* ------------------------------------------------------------------------
\* C9: when the append of a rewritePage succeeded in full the invocation
\* returns isError = false whatever the deletes do: each captured id is sent
\* for deletion once, in captured order, a failed delete does not stop the
\* others, and deletedCount + number of delete errors = number of captured
\* ids.
\* ------------------------------------------------------------------------
C9_BestEffortDelete ==
  \A p \in Procs :
    inv[p].op = "rewritePage" =>
      LET sent == Args(Events(p, "delete", "send"))
          failed == Args(Events(p, "delete", "fail"))
          deleted == Args(Events(p, "delete", "ok"))
          ids == inv[p].existingBlockIds
      IN /\ Len(sent) <= Len(ids)
         /\ sent = SubSeq(ids, 1, Len(sent))
         /\ (inv[p].pc = "done" /\ inv[p].batchResult.success) =>
              /\ inv[p].returned = "value"
              /\ ~inv[p].isError
              /\ sent = ids
              /\ inv[p].deletedCount = Len(deleted)
              /\ [ k \in 1..Len(inv[p].deleteErrors) |->
                     inv[p].deleteErrors[k].blockId ] = failed
              /\ inv[p].deletedCount + Len(inv[p].deleteErrors) = Len(ids)

\* the first delete failed and the later ones were still sent and succeeded
C9_Witness ==
  /\ inv[1].op = "rewritePage"
  /\ inv[1].pc = "done"
  /\ ~inv[1].isError
  /\ Len(inv[1].existingBlockIds) > 2
  /\ Len(inv[1].deleteErrors) = 1
  /\ inv[1].deleteErrors[1].blockId = inv[1].existingBlockIds[1]
  /\ inv[1].deletedCount = Len(inv[1].existingBlockIds) - 1

\* ------------------------------------------------------------------------
\* C10: fetchAllChildBlockIds returns the ids of the children of every page
\* of the listing, in page order, none missing and none twice: one list call
\* per page, the first without cursor and each later one with the
\* next_cursor of the answer before it, ending with the first answer that
\* has no further cursor.
\* ------------------------------------------------------------------------
\* fetchAllChildBlockIds has returned (not thrown) in invocation p
FetchReturned(p) ==
  \/ inv[p].op = "fetchAllChildBlockIds" /\ inv[p].pc = "done" /\ inv[p].returned = "value"
  \/ /\ inv[p].op = "rewritePage"
     /\ inv[p].validateBeforeDelete
     /\ Len(Events(p, "list", "ok")) > 0
     /\ Len(Events(p, "list", "fail")) = 0
     /\ inv[p].pc \notin {"list_send", "list_wait"}

PageLen == Min(PAGE_SIZE, RemotePageCap)

C10_FetchReturnsEveryChildOnce ==
  \A p \in Procs :
    LET sent == Args(Events(p, "list", "send"))
        m == Len(container0)
    IN /\ \A k \in 1..Len(sent) :
            sent[k] = IF k = 1 THEN NoCursor ELSE container0[(k - 1) * PageLen + 1].id
       /\ FetchReturned(p) =>
            /\ inv[p].childIds = Ids(container0)
            /\ \A i, j \in 1..Len(inv[p].childIds) :
                 i /= j => inv[p].childIds[i] /= inv[p].childIds[j]
            /\ Len(sent) = IF m = 0 THEN 1 ELSE CeilDiv(m, PageLen)
            /\ Len(Events(p, "list", "ok")) = Len(sent)
            /\ inv[p].op = "rewritePage" => inv[p].existingBlockIds = Ids(container0)

\* a listing of more than one page was read to its end
C10_Witness ==
  /\ inv[1].op = "fetchAllChildBlockIds"
  /\ inv[1].pc = "done"
  /\ inv[1].returned = "value"
  /\ Len(Events(1, "list", "ok")) > 1
  /\ Len(inv[1].childIds) > RemotePageCap


\* ------------------------------------------------------------------------
\* C11: deleteAllChildBlocks sends a delete for every fetched child id, once
\* each, one at a time and in fetched order; a failed delete is skipped and
\* the others are still sent; the returned count is the number of deletes
\* that succeeded.
\* ------------------------------------------------------------------------
C11_DeleteAllBestEffort ==
  \A p \in Procs :
    inv[p].op = "deleteAllChildBlocks" =>
      LET sent == Args(Events(p, "delete", "send"))
          events == EventsOfKind(p, "delete")
      IN /\ Cardinality(Pending(p, "delete")) <= 1
         /\ Len(sent) <= Len(inv[p].childIds)
         /\ sent = SubSeq(inv[p].childIds, 1, Len(sent))
         /\ \A k \in 1..Len(events) :
              IF k % 2 = 1
                THEN events[k].ev = "send"
                ELSE events[k].ev \in {"ok", "fail"} /\ events[k].arg = events[k - 1].arg
         /\ (inv[p].pc = "done" /\ inv[p].returned = "value") =>
              /\ inv[p].childIds = Ids(container0)
              /\ sent = inv[p].childIds
              /\ inv[p].deletedCount = Len(Events(p, "delete", "ok"))
              /\ Ids(container) = Args(Events(p, "delete", "fail"))

\* the first delete failed, the later ones were sent and succeeded
C11_Witness ==
  /\ inv[1].op = "deleteAllChildBlocks"
  /\ inv[1].pc = "done"
  /\ inv[1].returned = "value"
  /\ Len(inv[1].childIds) > 2
  /\ calls[Len(calls)].ev = "ok"
  /\ Args(Events(1, "delete", "fail")) = << inv[1].childIds[1] >>
  /\ inv[1].deletedCount = Len(inv[1].childIds) - 1


\* ------------------------------------------------------------------------
\* C12: whatever calls of markdownToBlocks came before, getConversionWarnings
\* returns exactly the warnings the most recent call generated (none if it
\* generated none), for every input of that call, blank input included.
\* ------------------------------------------------------------------------
GeneratedWarnings(markdown) == CollectWarnings(markdown.tokens, 1, Len(markdown.tokens))

C12_LastCallWins ==
  conv.pc = "done" => conv.warnings = GeneratedWarnings(conv.markdown)

\* ------------------------------------------------------------------------
\* C13: with several converting invocations interleaved at their await
\* points, the conversion warnings an invocation reports are exactly the
\* warnings its own conversion generated.
\* ------------------------------------------------------------------------
C13_OwnWarningsReported ==
  \A p \in Procs :
    (inv[p].report.made /\ (inv[p].op = "rewritePage" \/ inv[p].fromMarkdown)) =>
      inv[p].report.warnings = GeneratedWarnings(inv[p].markdown)

\* ------------------------------------------------------------------------
\* Vocabulary for the list claims
\* ------------------------------------------------------------------------
\* the items of a token tree in document order, each with the nesting level
\* of its list, the ordered flag of its list, the text of the item holding
\* its list (<< >> at the top level) and whether that item is a task item
RECURSIVE TokenItems(_, _, _, _)
RECURSIVE ListItemRecords(_, _, _, _, _, _)
ListItemRecords(items, k, ordered, level, parent, parentTask) ==
  IF k > Len(items) THEN << >>
  ELSE << [text |-> items[k].text, task |-> items[k].task, level |-> level,
           ordered |-> ordered, parent |-> parent, parentTask |-> parentTask,
           firstOfList |-> (k = 1)] >>
         \o TokenItems(items[k].tokens, level + 1, items[k].text, items[k].task)
         \o ListItemRecords(items, k + 1, ordered, level, parent, parentTask)

TokenItems(tokens, level, parent, parentTask) ==
  IF Len(tokens) = 0 THEN << >>
  ELSE (IF Head(tokens).type = "list"
          THEN ListItemRecords(Head(tokens).items, 1, Head(tokens).ordered,
                               level, parent, parentTask)
          ELSE << >>)
         \o TokenItems(Tail(tokens), level, parent, parentTask)

DocItems == TokenItems(conv.markdown.tokens, 1, << >>, FALSE)

\* the blocks of a block tree in pre-order, each with its depth
RECURSIVE PreOrder(_, _)
PreOrder(blocks, depth) ==
  IF Len(blocks) = 0 THEN << >>
  ELSE LET b == Head(blocks)
           hasChildren == "children" \in DOMAIN b
       IN << [text |-> b.text, type |-> b.type, depth |-> depth,
              hasChildren |-> hasChildren] >>
            \o (IF hasChildren THEN PreOrder(b.children, depth + 1) ELSE << >>)
            \o PreOrder(Tail(blocks), depth)

OutBlocks == PreOrder(conv.blocks, 1)

\* every sequence of sibling blocks of a block tree, as the blocks' texts
RECURSIVE SiblingSeqs(_)
SiblingSeqs(blocks) ==
  { [ k \in 1..Len(blocks) |-> blocks[k].text ] }
    \cup UNION { IF "children" \in DOMAIN blocks[k]
                   THEN SiblingSeqs(blocks[k].children) ELSE {}
                 : k \in 1..Len(blocks) }

Occurrences(seq, text) == Cardinality({ k \in 1..Len(seq) : seq[k].text = text })

\* the position of the item of that text in the document
DocPos(items, text) == CHOOSE k \in 1..Len(items) : items[k].text = text

Converted == conv.pc = "done"

DepthWarnings ==
  { k \in 1..Len(conv.warnings) : "depth" \in DOMAIN conv.warnings[k] }

\* ------------------------------------------------------------------------
\* C14: no block of the tree markdownToBlocks returns is nested deeper than
\* 3, the top-level blocks being at depth 1.
\* ------------------------------------------------------------------------
C14_DepthAtMostThree ==
  Converted =>
    LET out == OutBlocks
    IN \A k \in 1..Len(out) : out[k].depth <= MAX_NESTING_DEPTH

\* a list five levels deep was converted: blocks at depth 3, two flattenings
C14_Witness ==
  /\ Converted
  /\ Cardinality(DepthWarnings) >= 2
  /\ LET items == DocItems
         out == OutBlocks
     IN /\ \E k \in 1..Len(items) : items[k].level = 5
        /\ \E k \in 1..Len(out) : out[k].depth = MAX_NESTING_DEPTH

\* ------------------------------------------------------------------------
\* C15: every list item of the token tree, at every level, yields exactly
\* one block of the output tree: none is dropped, none is duplicated.
\* ------------------------------------------------------------------------
C15_OneBlockPerItem ==
  Converted =>
    LET items == DocItems
        out == OutBlocks
    IN \A k \in 1..Len(items) : Occurrences(out, items[k].text) = 1

\* ------------------------------------------------------------------------
\* C16: the items of a nested list that would form a 4th level are siblings
\* of the depth-3 item that held them, placed right after it (only items
\* from inside that item stand between), and the pre-order traversal of the
\* output lists the items in document order.
\* ------------------------------------------------------------------------
C16_HoistedRightAfterContainer ==
  Converted =>
    LET items == DocItems
        out == OutBlocks
        seqs == SiblingSeqs(conv.blocks)
    IN /\ \A k \in 1..Len(items) :
            items[k].level > MAX_NESTING_DEPTH =>
              \E S \in seqs :
                \E i \in 1..Len(S) : \E j \in (i + 1)..Len(S) :
                  /\ S[i] = items[k].parent
                  /\ S[j] = items[k].text
                  /\ \A m \in (i + 1)..(j - 1) :
                       DocPos(items, S[i]) < DocPos(items, S[m])
                         /\ DocPos(items, S[m]) < k
       /\ \A i \in 1..(Len(out) - 1) :
            DocPos(items, out[i].text) < DocPos(items, out[i + 1].text)

\* ------------------------------------------------------------------------
\* C17: one depth-exceeded warning is recorded for each nested list at a 4th
\* or deeper level, none when no list is nested deeper than 3 levels; a
\* document with a 4-level-deep list leaves at least one such warning.
\* ------------------------------------------------------------------------
C17_WarningPerFlattenedList ==
  Converted =>
    LET items == DocItems
        deepLists == { k \in 1..Len(items) :
                         items[k].level > MAX_NESTING_DEPTH /\ items[k].firstOfList }
    IN /\ Cardinality(DepthWarnings) = Cardinality(deepLists)
       /\ (deepLists = {}) => (DepthWarnings = {})
       /\ (deepLists # {}) => (DepthWarnings # {})

\* ------------------------------------------------------------------------
\* C18: a task item holding a nested list yields a to_do block without
\* children, followed at the same level by the blocks of the nested list's
\* items; the nested items are not dropped.
\* ------------------------------------------------------------------------
C18_TaskItemNestedAsSiblings ==
  Converted =>
    LET items == DocItems
        out == OutBlocks
        seqs == SiblingSeqs(conv.blocks)
    IN \A k \in 1..Len(items) :
         (items[k].parentTask /\ Occurrences(out, items[k].parent) > 0) =>
           /\ \A b \in 1..Len(out) :
                out[b].text = items[k].parent =>
                  out[b].type = "to_do" /\ ~out[b].hasChildren
           /\ \E S \in seqs :
                \E i \in 1..Len(S) : \E j \in (i + 1)..Len(S) :
                  /\ S[i] = items[k].parent
                  /\ S[j] = items[k].text
                  /\ items[k].firstOfList => j = i + 1

\* ------------------------------------------------------------------------
\* C19 (as stated): every non-task item block that comes of a top-level
\* list is numbered if the top-level list is ordered and bulleted if it is
\* not, whatever the flags of the nested lists.
\* ------------------------------------------------------------------------
C19_TopLevelFlagGoverns ==
  Converted =>
    LET out == OutBlocks
    IN \A b \in 1..Len(out) :
         out[b].type # "to_do" =>
           (out[b].type = "numbered_list_item") = conv.markdown.tokens[1].ordered

\* ------------------------------------------------------------------------
\* C19 (amended): every non-task item block, at every depth and hoisted
\* ones included, is numbered if the list that directly holds its item is
\* ordered and bulleted if that list is not.
\* ------------------------------------------------------------------------
C19_OwnListFlagGoverns ==
  Converted =>
    LET items == DocItems
        out == OutBlocks
    IN \A b \in 1..Len(out) :
         out[b].type # "to_do" =>
           /\ out[b].type \in {"numbered_list_item", "bulleted_list_item"}
           /\ (out[b].type = "numbered_list_item")
                = items[DocPos(items, out[b].text)].ordered

\* a bulleted list with ordered nested lists, four levels deep: the hoisted
\* blocks are numbered, the top-level ones bulleted
C19_Witness ==
  /\ Converted
  /\ ~conv.markdown.tokens[1].ordered
  /\ LET items == DocItems
         out == OutBlocks
     IN /\ out[1].type = "bulleted_list_item"
        /\ \E b \in 1..Len(out) :
             /\ out[b].depth = MAX_NESTING_DEPTH
             /\ out[b].type = "numbered_list_item"
             /\ items[DocPos(items, out[b].text)].level > MAX_NESTING_DEPTH


\* ------------------------------------------------------------------------
\* C20: the chunks splitTextIntoChunks returns for a text, put together in
\* order, are the text; for a non-empty text no chunk is empty; no chunk is
\* longer than the limit of 2000; and the splitting loop terminates.
\* ------------------------------------------------------------------------
C20_ChunksAreTheText ==
  /\ [](conv.pc = "done" =>
         /\ Flatten(conv.chunks) = conv.text
         /\ \A k \in 1..Len(conv.chunks) :
              /\ Len(conv.chunks[k]) <= MAX_RICH_TEXT_LENGTH
              /\ Len(conv.text) > 0 => Len(conv.chunks[k]) > 0)
  /\ <>(conv.pc = "done")

\* a text longer than two limits was split in three, the first chunk ending
\* at a break character below the limit
C20_Witness ==
  /\ conv.pc = "done"
  /\ Len(conv.text) > 2 * MAX_RICH_TEXT_LENGTH
  /\ Len(conv.chunks) = 3
  /\ Len(conv.chunks[1]) < MAX_RICH_TEXT_LENGTH
  /\ conv.chunks[1][Len(conv.chunks[1])] \in BreakChars


\* ------------------------------------------------------------------------
\* Text runs of the converted blocks
\* ------------------------------------------------------------------------
\* the blocks of a result, children at every depth included
RECURSIVE BlockSet(_)
BlockSet(blocks) ==
  UNION { { blocks[k] } \cup (IF "children" \in DOMAIN blocks[k]
                               THEN BlockSet(blocks[k].children) ELSE {})
            : k \in 1..Len(blocks) }

\* the text runs a block carries: its rich_text, the caption of an image
TextRuns(block) ==
  IF block.type \in TextualTypes THEN RichText(block)
  ELSE IF block.type = "image" /\ "caption" \in DOMAIN block THEN block.caption
  ELSE << >>

ConversionReturned == conv.pc \in {"getConversionWarnings", "done"}

\* C21: every text run of every block markdownToBlocks produces, of whatever
\* kind and code blocks included, has a content of at most 2000 characters.
C21_RunsWithinLimit ==
  ConversionReturned =>
    \A b \in BlockSet(conv.blocks) :
      LET runs == TextRuns(b)
      IN \A k \in 1..Len(runs) : Len(runs[k].content) <= MAX_RICH_TEXT_LENGTH

\* C22: createPlainTextRichText returns the empty sequence for null or
\* undefined only, and for every string at least one run, a single run with
\* empty content when nothing is left of the text; so every textual block of
\* a conversion carries at least one text run.
C22_AtLeastOneTextRun ==
  /\ conv.pc = "returned" =>
       LET runs == conv.richText
       IN IF conv.text = Null THEN runs = << >>
          ELSE /\ Len(runs) >= 1
               /\ Len(Flatten([ k \in 1..Len(runs) |-> runs[k].content ])) = 0
                    => runs = << TextRun(<< >>) >>
  /\ ConversionReturned =>
       \A b \in BlockSet(conv.blocks) :
         b.type \in TextualTypes => Len(RichText(b)) >= 1

C22_Witness ==
  /\ conv.pc = "done"
  /\ \E b \in BlockSet(conv.blocks) :
       /\ b.type = "heading_1"
       /\ Len(b.text) > 0
       /\ RichText(b) = << TextRun(<< >>) >>

ListItemTypes == { "bulleted_list_item", "numbered_list_item" }

\* C23: no bulleted or numbered item block of a conversion result has an
\* empty children sequence: the field is absent or non-empty, also for an
\* item whose nested list has no items.
C23_ChildrenAbsentOrNonEmpty ==
  ConversionReturned =>
    \A b \in BlockSet(conv.blocks) :
      b.type \in ListItemTypes =>
        ("children" \in DOMAIN b => Len(b.children) > 0)

\* an item holding a nested list without items was converted
C23_Witness ==
  /\ conv.pc = "done"
  /\ \E k \in 1..Len(conv.markdown.tokens) :
       LET token == conv.markdown.tokens[k]
       IN /\ token \in NestedListTokens
          /\ token.items[1].tokens[2].items = << >>
  /\ \E b \in BlockSet(conv.blocks) :
       b.type \in ListItemTypes /\ "children" \notin DOMAIN b /\ b.text = PlainA

\* the warning pushed for a token of a kind processToken has no case for
UnknownTokenWarning(kind) == [warning |-> "Unknown token type", type |-> kind]

IsKnownToken(token) == token.type \in KnownTokenTypes

IsUnknownToken(token) == token.type \notin KnownTokenTypes

\* the document without its top-level tokens of unknown kind
WithoutUnknownTokens(markdown) ==
  [markdown EXCEPT !.tokens = SelectSeq(@, IsKnownToken)]

CountOf(seq, x) == Cardinality({ k \in 1..Len(seq) : seq[k] = x })

\* C24: a top-level token of unknown kind yields no block and exactly one
\* warning "Unknown token type: <kind>" and does not stop the conversion: the
\* blocks are those of the document without the unknown tokens, in the same
\* order, and the warnings those of that document plus one per unknown token.
C24_UnknownTokenSkippedWithWarning ==
  conv.pc = "done" =>
    LET rest == WithoutUnknownTokens(conv.markdown)
        unknown == SelectSeq(conv.markdown.tokens, IsUnknownToken)
        restWarnings == markdownToBlocksWarnings(rest, << >>)
    IN /\ conv.blocks = markdownToBlocks(rest)
       /\ Len(conv.warnings) = Len(restWarnings) + Len(unknown)
       /\ \A k \in 1..Len(unknown) :
            LET w == UnknownTokenWarning(unknown[k].type)
            IN CountOf(conv.warnings, w)
                 = CountOf(restWarnings, w)
                     + Cardinality({ j \in 1..Len(unknown) : unknown[j].type = unknown[k].type })

\* an unknown token between two tokens that yield blocks was converted
C24_Witness ==
  /\ conv.pc = "done"
  /\ Len(conv.markdown.tokens) = 3
  /\ IsUnknownToken(conv.markdown.tokens[2])
  /\ conv.markdown.tokens[1].type = "hr"
  /\ conv.markdown.tokens[3].type = "paragraph"
  /\ Len(conv.blocks) = 2
  /\ conv.warnings = << UnknownTokenWarning(conv.markdown.tokens[2].type) >>

\* the text a block holds: the contents of its text runs, joined
BlockText(block) ==
  LET runs == RichText(block)
  IN Flatten([ k \in 1..Len(runs) |-> runs[k].content ])

\* a paragraph token that is one image whose URL is not well-formed
IsMalformedImage(token) ==
  /\ token.type = "paragraph"
  /\ "tokens" \in DOMAIN token
  /\ Len(token.tokens) = 1
  /\ token.tokens[1].type = "image"
  /\ ~IsValidUrl(token.tokens[1].href)

\* the caption of the image, its URL when it has none
CaptionOrUrl(image) ==
  IF Len(image.text) > 0 THEN image.text
  ELSE IF image.title # Null /\ Len(image.title) > 0 THEN image.title
  ELSE image.href

TokensOnly(tokens, lo, hi) == [blank |-> FALSE, tokens |-> SubSeq(tokens, lo, hi)]

\* C25: an image whose URL is not well-formed does not fail the conversion:
\* it yields one paragraph block whose text is "[Image: <caption-or-url>]",
\* the caption when there is one and the URL otherwise, and the blocks of the
\* rest of the document are what they are without it.
C25_MalformedImageFallback ==
  conv.pc = "done" =>
    LET tokens == conv.markdown.tokens
    IN \A k \in 1..Len(tokens) :
         IsMalformedImage(tokens[k]) =>
           LET before == markdownToBlocks(TokensOnly(tokens, 1, k - 1))
               after == markdownToBlocks(TokensOnly(tokens, k + 1, Len(tokens)))
           IN /\ Len(conv.blocks) = Len(before) + 1 + Len(after)
              /\ SubSeq(conv.blocks, 1, Len(before)) = before
              /\ SubSeq(conv.blocks, Len(before) + 2, Len(conv.blocks)) = after
              /\ conv.blocks[Len(before) + 1].type = "paragraph"
              /\ BlockText(conv.blocks[Len(before) + 1])
                   = << "[", "I", "m", "a", "g", "e", ":", " " >>
                       \o CaptionOrUrl(tokens[k].tokens[1]) \o << "]" >>

\* the block made of the top-level token k, for a token making one block
BlockOfToken(k) ==
  conv.blocks[Len(markdownToBlocks(TokensOnly(conv.markdown.tokens, 1, k - 1))) + 1]

CodeTokenIndexes ==
  { k \in 1..Len(conv.markdown.tokens) : conv.markdown.tokens[k].type = "code" }

\* the tag of a code token, lowercased; empty when the fence has none
TagOf(token) == IF token.lang = Null THEN << >> ELSE toLowerCase(token.lang)

AliasKeys == { e[1] : e \in languageMap }

\* C26 as stated: the language of a code block is the full name the alias
\* table gives for its tag, and "plain text" for every tag that is absent or
\* not in the table.
C26_UnrecognizedIsPlainText ==
  conv.pc = "done" =>
    \A k \in CodeTokenIndexes :
      LET tag == TagOf(conv.markdown.tokens[k])
      IN /\ BlockOfToken(k).type = "code"
         /\ tag \in AliasKeys =>
              << tag, BlockOfToken(k).language >> \in languageMap
         /\ tag \notin AliasKeys => BlockOfToken(k).language = PlainText

\* C26, amended: the tag is lowercased; an alias of the table gives its full
\* name, an absent or empty tag gives "plain text", and every other tag is
\* the language as it is, lowercased (a tag naming a property the table
\* object inherits gives that property, which is no language name).
C26_UnrecognizedPassedOn ==
  conv.pc = "done" =>
    \A k \in CodeTokenIndexes :
      LET tag == TagOf(conv.markdown.tokens[k])
      IN /\ BlockOfToken(k).type = "code"
         /\ tag \in AliasKeys =>
              << tag, BlockOfToken(k).language >> \in languageMap
         /\ Len(tag) = 0 => BlockOfToken(k).language = PlainText
         /\ tag \notin AliasKeys \cup InheritedKeys => BlockOfToken(k).language = tag
         /\ tag \in InheritedKeys => BlockOfToken(k).language = InheritedProperty

\* a code block whose tag, "Python", is no alias of the table
C26_Witness ==
  /\ conv.pc = "done"
  /\ \E k \in CodeTokenIndexes :
       /\ conv.markdown.tokens[k].lang = << "P", "y", "t", "h", "o", "n" >>
       /\ BlockOfToken(k).language = << "p", "y", "t", "h", "o", "n" >>

\* ------------------------------------------------------------------------
\* Write operations fed with Markdown
\* ------------------------------------------------------------------------
\* the invocation was given Markdown (and no children) that converts to no block
ConvertsToNothing(p) ==
  /\ inv[p].hasMarkdown
  /\ ~inv[p].hasChildren
  /\ markdownToBlocks(inv[p].markdown) = << >>

MutationKinds == { "append", "create", "delete" }

\* C27: in appendBlockChildren and the create-page tool, Markdown that
\* converts to no block is answered with an error result, never with
\* success, and no mutating request is sent.
C27_EmptyConversionIsError ==
  \A p \in Procs :
    (inv[p].op \in {"appendBlockChildren", "createPage"} /\ ConvertsToNothing(p)) =>
      /\ \A k \in 1..Len(calls) :
           calls[k].p = p => calls[k].kind \notin MutationKinds
      /\ inv[p].pc = "done" => inv[p].isError

\* C28: a request that carries blocks converted from Markdown carries at
\* most 100 top-level blocks, whichever write operation sends it.
C28_AtMostHundredPerRequest ==
  \A q \in inflight :
    (q.kind \in {"append", "create"}
       /\ (inv[q.p].op = "rewritePage" \/ inv[q.p].fromMarkdown)) =>
      Len(q.children) <= NOTION_BLOCK_LIMIT

CreatedFor(s) == { t \in DOMAIN http.created : http.created[t].sessionId = s }

\* a request that carries a session id and was handed to a transport
RoutedRequests ==
  { r \in DOMAIN http.requests :
      http.requests[r].sessionId # NoSessionId /\ http.requests[r].handled }

\* every routed request was handed to the transport created for its id
C30_HandledByOwnTransport ==
  http.stateful =>
    \A r \in RoutedRequests :
      http.requests[r].transport \in CreatedFor(http.requests[r].sessionId)

\* s is in the map exactly while its transport is stored and not closed,
\* and the map leads from s to the transport created for s
C30_InMapWhileOpen ==
  /\ \A t \in DOMAIN http.created :
       LET s == http.created[t].sessionId
       IN s # NoSessionId =>
            (TransportsHas(http.transports, s)
               <=> (http.created[t].onclose /\ ~http.created[t].closed))
  /\ \A e \in http.transports : e[2] \in CreatedFor(e[1])

\* a GET or DELETE that arrives with an id whose session was removed is
\* answered 400 or 404
C30_AnswerAfterRemoval ==
  Len(http'.requests) = Len(http.requests) + 1 =>
    LET q == http'.requests[Len(http'.requests)]
    IN (\E t \in CreatedFor(q.sessionId) :
          q.sessionId # NoSessionId /\ http.created[t].closed) =>
         /\ q.method = "GET" => q.status = "400"
         /\ q.method = "DELETE" => q.status = "404"

C30_StatelessMapEmpty == ~http.stateful => http.transports = {}

\* ------------------------------------------------------------------------
\* C30: in stateful mode a request carrying session id s is handled by the
\* transport that was created for s and by no other; s is in the session
\* map exactly from the POST that created it until its transport closes or
\* a DELETE for s, after which GET with s answers 400 and DELETE with s
\* answers 404; in stateless mode the session map stays empty.
\* ------------------------------------------------------------------------
C30_SessionsRouteToOwnTransport ==
  /\ [](C30_HandledByOwnTransport /\ C30_InMapWhileOpen /\ C30_StatelessMapEmpty)
  /\ [][C30_AnswerAfterRemoval]_vars

====
